---- MODULE Spec2Model ----
(***************************************************************************)
(* Cloudify captcha OCR service: the multi-strategy recognition handlers   *)
(* (handleOcr of src/unnamed/part_001, src/unnamed/part_002 and the third  *)
(* version in src/index.js), their per-attempt routines runOcr and         *)
(* runOcrSegmented, and the text normalizer.                               *)
(*                                                                         *)
(* Strings are sequences of one-character strings.  Confidences that the   *)
(* code computes by division are exact rationals [n, d].                   *)
(***************************************************************************)
EXTENDS Integers, Sequences, FiniteSets, TLC

VARIABLES
    variant,      \* which source file's handler serves the request
    req,          \* shape of the request body
    pc,           \* position of handleOcr / runOcr / runOcrSegmented
    idx,          \* index of the strategy of the current loop iteration
    attempted,    \* instrumentation: strategy indices whose attempt was started
    worker,       \* the attempt's local worker, with the terminate() calls it received
    workers,      \* instrumentation: the workers of the attempts that have ended
    data,         \* result of worker.recognize held by the attempt
    result,       \* Candidate returned by the attempt to the strategy loop
    finalResult,  \* handleOcr's finalResult
    responses,    \* what was sent with res.json
    caught,       \* instrumentation: an exception reached handleOcr's catch
    processed,    \* runOcrSegmented: the binarized image
    chosen,       \* runOcrSegmented: the segments handed to recognition
    k,            \* runOcrSegmented: position in the glyph loop
    letters,      \* runOcrSegmented: recognized glyphs so far
    firstValid,   \* instrumentation: first attempt whose Candidate passed
    bestSeen,     \* instrumentation: highest-confidence Candidate seen
    buffer,       \* handleOcr's buffer: the bytes decoded from the request
    processedBuffer, \* runOcr's processedBuffer: the bytes handed to recognize
    recognized,   \* Candidate Selector on its own: the recognition result it is given
    stage,        \* Candidate Selector on its own: position in runOcr's lines 78-140
    bestText,     \* runOcr's bestText
    bestConf,     \* runOcr's bestConf
    symCandidate, \* runOcr's candidate (the symbol-derived string)
    globalWorker, \* part_003: the module's 'worker', 0 for null, else the number of an engine
    engines,      \* part_003: the workers createWorker has returned, in order
    where,        \* part_003: position of each request being handled
    target,       \* part_003: the engine a request's pending call was issued on
    stale,        \* instrumentation: the engines that had thrown when the request arrived
    replies,      \* part_003: what each request was answered
    arrivals,     \* instrumentation: number of requests received
    run,          \* 0: one request; 1, 2: a request and the same request sent again
    env,          \* what the image library and the engine answered in run 1, by place
    first,        \* the attempts and the answer of run 1
    faults,       \* number of failures of the image library and the engine in run 1
    bitmap,       \* segmentation on its own: processed.bitmap
    segList,      \* runOcrSegmented's segs
    phase,        \* segmentation on its own: position in runOcrSegmented's lines 163-212
    rawText,      \* normalize on its own: its argument
    normalized,   \* part_002's normalized
    returned      \* normalize on its own: whether normalize has returned

\* the variables of one request
handlerVars == <<variant, req, pc, idx, attempted, worker, workers, data, result, finalResult,
                 responses, caught, processed, chosen, k, letters, firstValid, bestSeen,
                 buffer, processedBuffer>>

\* the variables of the Candidate Selector taken on its own
selectorVars == <<recognized, stage, bestText, bestConf, symCandidate>>

\* the variables of the handler that shares one worker among requests
sharedVars == <<globalWorker, engines, where, target, stale, replies, arrivals>>

\* the variables of the repetition of a request
replayVars == <<run, env, first, faults>>

\* the variables of the segmentation taken on its own
segmenterVars == <<bitmap, segList, phase>>

\* the variables of normalize taken on its own
normalizerVars == <<rawText, normalized, returned>>

vars == <<handlerVars, selectorVars, sharedVars, replayVars, segmenterVars, normalizerVars>>

----------------------------------------------------------------------------
(* JavaScript values *)

\* a numeric field that is undefined (typeof x !== 'number')
None == -1

\* x || 0 on a number or undefined
OrZero(x) == IF x = None THEN 0 ELSE x

\* the empty string
Empty == << >>

AZ == {"A","B","C","D","E","F","G","H","I","J","K","L","M",
       "N","O","P","Q","R","S","T","U","V","W","X","Y","Z"}

IsAZ(c) == c \in AZ

IsSpace(c) == c \in {" ", "\n"}

\* String.prototype.toUpperCase on one character
UpperChar(c) ==
    CASE c = "a" -> "A" [] c = "c" -> "C" [] c = "e" -> "E" [] c = "k" -> "K"
      [] c = "l" -> "L" [] c = "t" -> "T" [] OTHER -> c

ToUpper(s) == [i \in 1..Len(s) |-> UpperChar(s[i])]

\* mutation: the replace is left out
StripNothing(s) == s

\* s.replace(/[^A-Z]/g, '')
StripAZ(s) == SelectSeq(s, IsAZ)

RECURSIVE TrimLeft(_)
TrimLeft(s) == IF s # Empty /\ IsSpace(Head(s)) THEN TrimLeft(Tail(s)) ELSE s

RECURSIVE TrimRight(_)
TrimRight(s) ==
    IF s # Empty /\ IsSpace(s[Len(s)]) THEN TrimRight(SubSeq(s, 1, Len(s) - 1)) ELSE s

\* String.prototype.trim
Trim(s) == TrimRight(TrimLeft(s))

\* (x || '') on a text field: undefined and '' give ''
OrEmpty(t) == IF t.k = "str" THEN t.s ELSE Empty

\* a string value, the value undefined, a truthy value that is no string
Str(s) == [k |-> "str", s |-> s]
Undef == [k |-> "undef", s |-> Empty]
NotAString == [k |-> "num", s |-> Empty]

----------------------------------------------------------------------------
(* exact arithmetic on confidences *)

RECURSIVE GCD(_, _)
GCD(a, b) == IF b = 0 THEN a ELSE GCD(b, a % b)

R(n) == [n |-> n, d |-> 1]

\* sum / len, len > 0
RDiv(sum, len) ==
    LET g == GCD(sum, len) IN [n |-> sum \div g, d |-> len \div g]

RAddInt(a, i) == [n |-> a.n + i * a.d, d |-> a.d]

RGeq(a, b) == a.n * b.d >= b.n * a.d

RGt(a, b) == a.n * b.d > b.n * a.d

\* Math.round(sum / len) for sum >= 0, len > 0
Round(sum, len) == (2 * sum + len) \div (2 * len)

RECURSIVE SumSeq(_)
SumSeq(s) == IF s = << >> THEN 0 ELSE Head(s) + SumSeq(Tail(s))

\* Array.prototype.sort with comparator (a, b) => key(a) - key(b): stable, ascending
SortByKey(seq, key) ==
    LET n == Len(seq)
        Rank(i) == Cardinality({j \in 1..n : key[j] < key[i] \/ (key[j] = key[i] /\ j < i)}) + 1
    IN [r \in 1..n |-> seq[CHOOSE i \in 1..n : Rank(i) = r]]

\* arr.map(f).join('') for one-character parts
RECURSIVE Join(_)
Join(parts) == IF parts = << >> THEN Empty ELSE Head(parts) \o Join(Tail(parts))

----------------------------------------------------------------------------
(* runOcr: what follows worker.recognize (the Candidate Selector) *)

\* a Candidate as runOcr / runOcrSegmented return it
Candidate(text, confidence, error) ==
    [text |-> text, confidence |-> confidence, error |-> error]

\* { text: '', confidence: 0, error: true }
FailedCandidate == Candidate(Empty, R(0), TRUE)

\* .toUpperCase() is called on a truthy value that is not a string: TypeError
SelectorThrows(d) ==
    \/ d.text.k = "num"
    \/ \E i \in 1..Len(d.words) : d.words[i].text.k = "num"
    \/ \E i \in 1..Len(d.symbols) : d.symbols[i].text.k = "num"

baseText(d) == Trim(StripAZ(ToUpper(OrEmpty(d.text))))

\* mutation: the words are not filtered by length
WordCandidatesAnyLength(d) ==
    [i \in 1..Len(d.words) |->
        [text |-> StripAZ(ToUpper(OrEmpty(d.words[i].text))),
         confidence |-> OrZero(d.words[i].confidence)]]

\* data.words.map(...).filter(c => c.text.length >= 3 && c.text.length <= 10)
WordCandidates(d) ==
    LET mapped == [i \in 1..Len(d.words) |->
                     [text |-> StripAZ(ToUpper(OrEmpty(d.words[i].text))),
                      confidence |-> OrZero(d.words[i].confidence)]]
        Keep(c) == Len(c.text) >= 3 /\ Len(c.text) <= 10
    IN SelectSeq(mapped, Keep)

\* candidates.sort((a, b) => (b.confidence || 0) - (a.confidence || 0))
SortedWordCandidates(d) ==
    LET c == WordCandidates(d)
    IN SortByKey(c, [i \in 1..Len(c) |-> 0 - c[i].confidence])

\* mutation: the best word replaces the full text whatever its confidence
WordStageAlways(d) ==
    LET candidates == SortedWordCandidates(d)
    IN IF Len(d.words) > 0 /\ candidates # << >>
       THEN [text |-> candidates[1].text, conf |-> R(candidates[1].confidence)]
       ELSE [text |-> baseText(d), conf |-> R(OrZero(d.confidence))]

\* bestText / bestConf after the words stage
WordStage(d) ==
    LET base == [text |-> baseText(d), conf |-> R(OrZero(d.confidence))]
        candidates == SortedWordCandidates(d)
    IN IF Len(d.words) > 0 /\ candidates # << >>
          /\ RGeq(R(candidates[1].confidence), base.conf)
       THEN [text |-> candidates[1].text, conf |-> R(candidates[1].confidence)]
       ELSE base

\* data.symbols.map(...).filter(s => /^[A-Z]$/.test(s.ch))
RawSymbols(d) ==
    LET mapped == [i \in 1..Len(d.symbols) |->
                     [ch |-> ToUpper(OrEmpty(d.symbols[i].text)),
                      conf |-> OrZero(d.symbols[i].confidence),
                      bbox |-> d.symbols[i].bbox]]
        Keep(s) == Len(s.ch) = 1 /\ IsAZ(s.ch[1])
    IN SelectSeq(mapped, Keep)

\* the height runOcr reads from a bounding box
BoxHeight(b) ==
    IF b.h # None THEN b.h
    ELSE IF b.y1 # None /\ b.y0 # None
         THEN (IF b.y1 >= b.y0 THEN b.y1 - b.y0 ELSE b.y0 - b.y1)
         ELSE 0

Heights(raw) ==
    LET hs == [i \in 1..Len(raw) |-> BoxHeight(raw[i].bbox)]
        Pos(h) == h > 0
    IN SelectSeq(hs, Pos)

\* sorted[Math.floor(sorted.length / 2)], 0 for an empty array
Median(values) ==
    LET sorted == SortByKey(values, values)
    IN IF Len(sorted) > 0 THEN sorted[(Len(sorted) \div 2) + 1] ELSE 0

medianH(raw) == Median(Heights(raw))

minConf == 10

Positioned(raw) ==
    LET m == medianH(raw)
    IN [i \in 1..Len(raw) |->
          [ch |-> raw[i].ch,
           conf |-> raw[i].conf,
           h |-> IF raw[i].bbox.h # None THEN raw[i].bbox.h ELSE m,
           x |-> IF raw[i].bbox.x # None THEN raw[i].bbox.x
                 ELSE IF raw[i].bbox.x0 # None THEN raw[i].bbox.x0 ELSE 0]]

\* positioned.filter(...).sort((a, b) => a.x - b.x);  h >= medianH * 0.6
Selected(raw) ==
    LET m == medianH(raw)
        Keep(s) == s.conf >= minConf /\ (IF m # 0 THEN 10 * s.h >= 6 * m ELSE TRUE)
        kept == SelectSeq(Positioned(raw), Keep)
    IN SortByKey(kept, [i \in 1..Len(kept) |-> kept[i].x])

avgConfSel(selected) ==
    IF Len(selected) > 0
    THEN RDiv(SumSeq([i \in 1..Len(selected) |-> selected[i].conf]), Len(selected))
    ELSE R(0)

\* mutation: a leading 'C' is never dropped
SymbolCandidateKeepC(selected) == Join([i \in 1..Len(selected) |-> selected[i].ch])

\* the symbol-derived candidate string, after the leading-'C' drop
SymbolCandidate(selected) ==
    LET chars == [i \in 1..Len(selected) |-> selected[i].ch]
    IN IF Len(selected) >= 2 /\ selected[1].ch = <<"C">> /\ selected[1].conf < 12
       THEN Join(Tail(chars))
       ELSE Join(chars)

\* mutation: no bonus for any length
lenBonusNone(candidate) == 0

lenBonus(candidate) ==
    IF Len(candidate) = 4 THEN 10
    ELSE IF Len(candidate) = 5 THEN 6
    ELSE IF Len(candidate) = 6 THEN 4
    ELSE IF Len(candidate) = 3 THEN 2
    ELSE 0

\* bestText / bestConf after the symbols stage
SymbolStage(d, best) ==
    LET selected == Selected(RawSymbols(d))
        candidate == SymbolCandidate(selected)
        candidateScore == RAddInt(avgConfSel(selected), lenBonus(candidate))
        bestScore == RAddInt(best.conf, IF Len(best.text) = 4 THEN 10 ELSE 0)
    IN IF Len(d.symbols) > 0 /\ Len(candidate) >= 3 /\ Len(candidate) <= 10
          /\ RGeq(candidateScore, bestScore)
       THEN [text |-> candidate, conf |-> avgConfSel(selected)]
       ELSE best

\* part_001: the Candidate runOcr returns from a recognition result
SelectCandidate(d) ==
    LET best == SymbolStage(d, WordStage(d))
    IN Candidate(best.text, best.conf, FALSE)

\* part_002: runOcr returns the stripped full text with the engine's confidence
PlainCandidate(d) == Candidate(baseText(d), R(OrZero(d.confidence)), FALSE)

\* index.js: text.trim() on a value that is no string throws
IndexThrows(d) == d.text.k # "str"

\* index.js: text.trim().replace(/[^A-Z]/g, '') with the confidence as given
IndexCandidate(d) == Candidate(StripAZ(Trim(d.text.s)), R(d.confidence), FALSE)

----------------------------------------------------------------------------
(* runOcrSegmented: column projection, segments, glyph post-filter *)

Max(a, b) == IF a >= b THEN a ELSE b

Min(a, b) == IF a <= b THEN a ELSE b

\* buf[i] of processed.bitmap.data (i counted from 0)
Buf(img, i) == img.data[i + 1]

\* proj[x]: the number of rows y with buf[(w * y + x) * 4] < 128
proj(img, x) ==
    Cardinality({y \in 0..(img.h - 1) : Buf(img, (img.w * y + x) * 4) < 128})

\* Math.max(1, Math.floor(h * 0.02))
th(img) == Max(1, (img.h * 2) \div 100)

\* mutation: runs of 5 columns are kept
MinSegWidthFive(img) == Max(5, (img.w * 2) \div 100)

\* Math.max(6, Math.floor(w * 0.02))
MinSegWidth(img) == Max(6, (img.w * 2) \div 100)

Segment(start, end) == [start |-> start, end |-> end, width |-> end - start + 1]

\* the for loop over x, then the run still open at the right edge
RECURSIVE ScanColumns(_, _, _, _)
ScanColumns(img, x, start, segs) ==
    IF x < img.w
    THEN IF proj(img, x) > th(img)
         THEN ScanColumns(img, x + 1, IF start = -1 THEN x ELSE start, segs)
         ELSE IF start # -1
              THEN ScanColumns(img, x + 1, -1,
                       IF (x - 1) - start + 1 >= MinSegWidth(img)
                       THEN Append(segs, Segment(start, x - 1)) ELSE segs)
              ELSE ScanColumns(img, x + 1, start, segs)
    ELSE IF start # -1 /\ (img.w - 1) - start + 1 >= MinSegWidth(img)
         THEN Append(segs, Segment(start, img.w - 1))
         ELSE segs

RawSegments(img) == ScanColumns(img, 0, -1, << >>)

\* the merge loop: i runs over segs[1..], curr is the segment being grown
RECURSIVE MergeLoop(_, _, _, _)
MergeLoop(segs, i, curr, merged) ==
    IF i > Len(segs) THEN Append(merged, curr)
    ELSE IF segs[i].start - curr.end <= 3
         THEN MergeLoop(segs, i + 1, Segment(curr.start, segs[i].end), merged)
         ELSE MergeLoop(segs, i + 1, segs[i], Append(merged, curr))

MergeSegments(segs) ==
    IF Len(segs) > 6 THEN MergeLoop(segs, 2, segs[1], << >>) ELSE segs

\* segs after the merge and segs.sort((a, b) => a.start - b.start)
Segments(img) ==
    LET m == MergeSegments(RawSegments(img))
    IN SortByKey(m, [i \in 1..Len(m) |-> m[i].start])

\* mutation: up to 6 segments are taken
takeSix(segs) == Min(6, Max(4, Len(segs)))

\* Math.min(5, Math.max(4, segs.length))
take(segs) == Min(5, Max(4, Len(segs)))

\* mutation: one segment fewer is handed to recognition
ChosenThree(segs) == SubSeq(segs, 1, Min(3, Len(segs)))

\* segs.slice(0, take)
Chosen(segs) == SubSeq(segs, 1, Min(take(segs), Len(segs)))

\* one pass of the glyph loop after recognize returned d for segment seg
PushLetter(ls, d, seg) ==
    LET ch == Trim(StripAZ(ToUpper(OrEmpty(d.text))))
    IN IF ch = Empty THEN ls
       ELSE Append(ls, [ch |-> <<ch[1]>>, conf |-> OrZero(d.confidence), width |-> seg.width])

medW(ls) == Median([i \in 1..Len(ls) |-> ls[i].width])

\* mutation: on ties the rightmost glyph of lowest confidence is taken
RECURSIVE LowestIdxRightmost(_, _, _)
LowestIdxRightmost(res, i, at) ==
    IF i > Len(res) THEN at
    ELSE LowestIdxRightmost(res, i + 1, IF res[i].conf <= res[at].conf THEN i ELSE at)

\* index of the lowest-confidence glyph, the leftmost on ties
RECURSIVE LowestIdx(_, _, _)
LowestIdx(res, i, at) ==
    IF i > Len(res) THEN at
    ELSE LowestIdx(res, i + 1, IF res[i].conf < res[at].conf THEN i ELSE at)

RemoveAt(seq, i) == SubSeq(seq, 1, i - 1) \o SubSeq(seq, i + 1, Len(seq))

\* while (result.length > 4) result.splice(idx, 1)
RECURSIVE DropToFour(_)
DropToFour(res) ==
    IF Len(res) > 4 THEN DropToFour(RemoveAt(res, LowestIdx(res, 2, 1))) ELSE res

\* the glyphs that make the text: lines 239-250
FilterLetters(ls) ==
    LET m == medW(ls)
        dropC == IF Len(ls) >= 5 /\ ls[1].ch = <<"C">> /\ ls[1].conf < 12
                 THEN Tail(ls) ELSE ls
        Keep(l) == l.conf >= 8 /\ (IF m # 0 THEN 10 * l.width >= 6 * m ELSE TRUE)
    IN SelectSeq(DropToFour(dropC), Keep)

\* the Candidate runOcrSegmented returns once the worker is terminated
SegmentedCandidate(ls) ==
    IF ls = << >> THEN Candidate(Empty, R(0), FALSE)
    ELSE LET res == FilterLetters(ls)
             text == Join([i \in 1..Len(res) |-> res[i].ch])
             confAvg == IF Len(res) > 0
                        THEN Round(SumSeq([i \in 1..Len(res) |-> res[i].conf]), Len(res))
                        ELSE 0
         IN Candidate(text, R(confAvg), FALSE)

----------------------------------------------------------------------------
(* handleOcr: normalizer, strategy lists, validity test *)

StartsWith(t, c) == t # Empty /\ t[1] = c

EndsWith(t, c) == t # Empty /\ t[Len(t)] = c

\* t.includes(sub)
Includes(t, sub) ==
    \E i \in 1..(Len(t) - Len(sub) + 1) : SubSeq(t, i, i + Len(sub) - 1) = sub

\* mutation: the leading 'C' is never removed
normalizeKeepC(raw) ==
    LET t == StripAZ(ToUpper(raw))
    IN IF t = Empty THEN Empty
       ELSE IF Includes(t, <<"S","V","N","G">>) THEN <<"S","V","N","G">>
       ELSE IF t = <<"C","A","T","L","E">> THEN <<"A","T","L","K">>
       ELSE t

\* part_002: normalize(raw) for a string raw
normalize(raw) ==
    LET t == StripAZ(ToUpper(raw))
    IN IF t = Empty THEN Empty
       ELSE IF Includes(t, <<"S","V","N","G">>) THEN <<"S","V","N","G">>
       ELSE IF t = <<"C","A","T","L","E">> THEN <<"A","T","L","K">>
       ELSE IF Len(t) > 4 /\ StartsWith(t, "C") /\ EndsWith(t, "E") /\ Len(Tail(t)) = 4
            THEN Tail(t)
       ELSE t

Strategy(name, psm, preprocess) == [name |-> name, psm |-> psm, preprocess |-> preprocess]

\* the strategies array of each handler
strategies(v) ==
    CASE v = "part_001" ->
           << Strategy("Standard", "7", TRUE),
              Strategy("Resize+Autocrop", "7", TRUE),
              Strategy("Raw Buffer", "7", FALSE),
              Strategy("Inverted", "7", TRUE),
              Strategy("Single Word Mode", "8", TRUE),
              Strategy("Single Word Resized 100", "8", TRUE),
              Strategy("Single Word Resized 125", "8", TRUE),
              Strategy("Single Word Resized 150", "8", TRUE),
              Strategy("Segmented", "10", TRUE) >>
      [] v = "part_002" ->
           << Strategy("Blur Strategy", "7", TRUE),
              Strategy("Standard Scaled", "7", TRUE),
              Strategy("Autocrop", "7", TRUE),
              Strategy("Inverted", "7", TRUE),
              Strategy("Single Word", "8", TRUE) >>
      [] v = "index" ->
           << Strategy("Standard", "7", TRUE),
              Strategy("Resize+Autocrop", "7", TRUE),
              Strategy("Raw Buffer", "7", FALSE),
              Strategy("Inverted", "7", TRUE),
              Strategy("Single Word Mode", "8", TRUE) >>

\* strategy.name === "Segmented" selects runOcrSegmented (part_001 only)
IsSegmented(v, i) == v = "part_001" /\ strategies(v)[i].name = "Segmented"

\* the text the validity test looks at and finalResult receives
CheckedText(v, res) == IF v = "part_002" THEN normalize(res.text) ELSE res.text

\* mutation: the validity test without its length bound
AcceptsAnyLength(v, res) ==
    LET t == CheckedText(v, res)
    IN CASE v = "part_001" ->
              t # Empty /\ (RGeq(res.confidence, R(10)) \/ Len(t) = 4)
         [] v = "part_002" ->
              t # Empty /\ (RGt(res.confidence, R(40)) \/ Len(t) = 4)
         [] v = "index" ->
              t # Empty

\* mutation: a text of length 4 needs the confidence of any other text
AcceptsByConfidence(v, res) ==
    LET t == CheckedText(v, res)
    IN CASE v = "part_001" ->
              t # Empty /\ Len(t) > 0 /\ Len(t) < 12 /\ RGeq(res.confidence, R(10))
         [] v = "part_002" ->
              t # Empty /\ Len(t) >= 3 /\ Len(t) <= 10 /\ RGt(res.confidence, R(40))
         [] v = "index" ->
              t # Empty /\ Len(t) > 0 /\ Len(t) < 12

\* the condition under which the loop assigns finalResult
Accepts(v, res) ==
    LET t == CheckedText(v, res)
    IN CASE v = "part_001" ->
              LET confOk == RGeq(res.confidence, R(10)) \/ (t # Empty /\ Len(t) = 4)
              IN t # Empty /\ Len(t) > 0 /\ Len(t) < 12 /\ confOk
         [] v = "part_002" ->
              t # Empty /\ Len(t) >= 3 /\ Len(t) <= 10
              /\ (RGt(res.confidence, R(40)) \/ Len(t) = 4)
         [] v = "index" ->
              t # Empty /\ Len(t) > 0 /\ Len(t) < 12

\* mutation: finalResult receives the Candidate's text instead of the text tested
NextFinalRaw(v, res, final) == IF Accepts(v, res) THEN res.text ELSE final

\* mutation: finalResult is assigned before the validity test
NextFinalKeepLast(v, res, final) == IF Accepts(v, res) THEN CheckedText(v, res) ELSE res.text

\* finalResult after the body of one loop iteration
NextFinal(v, res, final) == IF Accepts(v, res) THEN CheckedText(v, res) ELSE final

\* mutation: the break is missing
AfterCheckNoBreak(v, res) == "loop"

\* where the loop goes after the validity test: break, or the next iteration
AfterCheck(v, res) == IF Accepts(v, res) THEN "respond" ELSE "loop"

\* res.json({ solution: finalResult })
Answer(solution) == [status |-> 200, field |-> "solution", solution |-> solution]

\* mutation: the catch block answers like the single-strategy handlers
CatchResponseError == [status |-> 500, field |-> "error", solution |-> Empty]

\* the handler's catch block: res.json({ solution: "" })
CatchResponse == Answer(Empty)

----------------------------------------------------------------------------
(* what the collaborators may hand back: recognition results and images *)

\* length of the longest full text the engine returns here
LongLen == 12

\* height in pixels of the binarized images
ImgH == 3

Box(h, y0, y1, x, x0) == [h |-> h, y0 |-> y0, y1 |-> y1, x |-> x, x0 |-> x0]

\* a bounding box as tesseract.js gives it: x0, y0, x1, y1 only
TessBox(x0, y0, y1) == Box(None, y0, y1, None, x0)

Sym(text, confidence, bbox) == [text |-> Str(text), confidence |-> confidence, bbox |-> bbox]

Word(text, confidence) == [text |-> Str(text), confidence |-> confidence]

Data(text, confidence, words, symbols) ==
    [text |-> text, confidence |-> confidence, words |-> words, symbols |-> symbols]

LongText == [i \in 1..LongLen |-> "A"]

\* results of worker.recognize on a whole image
EngineOutputs ==
    { Data(Str(<<"A","T","L","K","\n">>), 90, << >>, << >>),
      Data(Str(<<"A","T","L","K">>), 0, << >>, << >>),
      Data(Str(<<"A","B">>), 5, << >>, << >>),
      Data(Str(<<"A","B">>), 90, << >>, << >>),
      Data(Str(<<"A","B","C","D","E">>), 35, << >>, << >>),
      Data(Str(<<"c","A","t","L","e"," ","1">>), 35, << >>, << >>),
      Data(Str(LongText), 80, << >>, << >>),
      Data(Undef, None, << >>, << >>),
      Data(NotAString, 50, << >>, << >>),
      Data(Str(<<"A"," ","T","L","K">>), 20,
           << Word(<<"A">>, 99), Word(<<"t","l","k","1">>, 60) >>, << >>),
      Data(Str(<<"C","A","T","L","K">>), 30, << >>,
           << Sym(<<"T">>, 90, TessBox(20, 0, 10)), Sym(<<"C">>, 11, TessBox(0, 0, 10)),
              Sym(<<"A">>, 90, TessBox(10, 0, 10)), Sym(<<"L">>, 90, TessBox(30, 10, 0)),
              Sym(<<"K">>, 90, TessBox(40, 0, 10)), Sym(<<"1">>, 95, TessBox(50, 0, 10)) >>),
      Data(Str(<< >>), 0, << >>,
           << Sym(<<"A">>, 11, Box(10, None, None, 1, None)),
              Sym(<<"B">>, 10, Box(10, None, None, 2, None)),
              Sym(<<"C">>, 10, Box(10, None, None, 3, None)),
              Sym(<<"E">>, 99, Box(5, None, None, 4, None)) >>) }

\* results of worker.recognize on one glyph crop
GlyphOutputs ==
    { Data(Str(<<"A">>), 90, << >>, << >>),
      Data(Str(<<"C">>), 5, << >>, << >>),
      Data(Str(<<"k","e","\n">>), 7, << >>, << >>),
      Data(Str(<<"t">>), 8, << >>, << >>),
      Data(Str(<<"L">>), 8, << >>, << >>),
      Data(Undef, None, << >>, << >>),
      Data(NotAString, 50, << >>, << >>) }

\* ink[x + 1] of the column x, from runs <<width, ink rows>>
RECURSIVE Columns(_)
Columns(runs) ==
    IF runs = << >> THEN << >>
    ELSE [i \in 1..Head(runs)[1] |-> Head(runs)[2]] \o Columns(Tail(runs))

\* an RGBA bitmap of height h whose column x has ink[x + 1] black pixels from the top,
\* white below
BitmapOfHeight(ink, h) ==
    [w |-> Len(ink), h |-> h,
     data |-> [i \in 1..(Len(ink) * h * 4) |->
                 LET px == (i - 1) \div 4
                 IN IF (i - 1) % 4 = 3 THEN 255
                    ELSE IF px \div Len(ink) < ink[(px % Len(ink)) + 1] THEN 0 ELSE 255]]

Bitmap(ink) == BitmapOfHeight(ink, ImgH)

\* images the transform pipeline of runOcrSegmented may produce
Images ==
    { Bitmap(Columns(<< <<4, 0>> >>)),
      Bitmap(Columns(<< <<3, ImgH>>, <<2, 0>>, <<6, 2>>, <<1, 1>>, <<5, ImgH>> >>)),
      Bitmap(Columns(<< <<1, 0>>, <<6, ImgH>>, <<2, 0>>, <<7, 2>>, <<1, 1>>, <<6, ImgH>>,
                        <<3, 0>>, <<8, ImgH>> >>)),
      Bitmap(Columns(<< <<2, 1>>, <<6, ImgH>>, <<1, 0>>, <<11, 2>>, <<2, 1>>, <<11, ImgH>>,
                        <<1, 0>>, <<11, ImgH>>, <<1, 0>> >>)),
      Bitmap(Columns(<< <<6, ImgH>>, <<1, 0>>, <<6, 2>>, <<1, 0>>, <<10, ImgH>>, <<1, 0>>,
                        <<6, ImgH>>, <<1, 0>>, <<6, ImgH>>, <<1, 0>>, <<6, 2>> >>)) }

\* processed before runOcrSegmented has run
NoImage == [w |-> 0, h |-> 0, data |-> << >>]

\* data before any recognition
NoData == Data(Undef, None, << >>, << >>)

Variants == {"part_001", "part_002", "index"}

\* request bodies: no body, no captcha field, an empty captcha, a captcha that is no string, a string
Requests == {"nobody", "nocaptcha", "emptycaptcha", "nonstring", "ok"}

\* !req.body || !req.body.captcha
MissingCaptcha(r) == r \in {"nobody", "nocaptcha", "emptycaptcha"}

----------------------------------------------------------------------------
(* the request: handleOcr with runOcr and runOcrSegmented inlined at their awaits *)

NoValid == [idx |-> 0, text |-> Empty, confidence |-> R(0)]

NoResult == Candidate(Empty, R(0), FALSE)

\* the local worker before createWorker has returned
NoWorker == [made |-> FALSE, live |-> FALSE, terms |-> 0]

HandlerInit ==
    /\ variant \in Variants
    /\ req \in Requests
    /\ pc = "received"
    /\ idx = 0
    /\ attempted = << >>
    /\ worker = NoWorker
    /\ workers = {}
    /\ data = NoData
    /\ result = NoResult
    /\ finalResult = Empty
    /\ responses = << >>
    /\ caught = FALSE
    /\ processed = NoImage
    /\ chosen = << >>
    /\ k = 0
    /\ letters = << >>
    /\ firstValid = NoValid
    /\ bestSeen = NoResult
    /\ buffer = << >>
    /\ processedBuffer = << >>

\* the Candidate Selector is not run on its own
SelectorIdle ==
    /\ recognized = NoData
    /\ stage = "idle"
    /\ bestText = Empty
    /\ bestConf = R(0)
    /\ symCandidate = Empty

\* most requests part_003's handler has in progress at a time
MaxInFlight == 2

\* most requests part_003's handler receives
MaxArrivals == 3

Slots == 1..MaxInFlight

NoReply == [status |-> 0, field |-> "none"]

\* part_003 is not serving
SharedIdle ==
    /\ globalWorker = 0
    /\ engines = << >>
    /\ where = [r \in Slots |-> "idle"]
    /\ target = [r \in Slots |-> 0]
    /\ stale = [r \in Slots |-> {}]
    /\ replies = [r \in Slots |-> NoReply]
    /\ arrivals = 0

NoFirst == [attempted |-> << >>, responses |-> << >>]

\* the request is not sent again
ReplayIdle ==
    /\ run = 0
    /\ env = {}
    /\ first = NoFirst
    /\ faults = 0

\* the segmentation is not run on its own
SegmenterIdle ==
    /\ bitmap = NoImage
    /\ segList = << >>
    /\ phase = "idle"

\* normalize is not run on its own
NormalizerIdle ==
    /\ rawText = Empty
    /\ normalized = Empty
    /\ returned = FALSE

Init ==
    /\ HandlerInit
    /\ SelectorIdle
    /\ SharedIdle
    /\ ReplayIdle
    /\ SegmenterIdle
    /\ NormalizerIdle

\* createWorker returned: a live worker on which terminate() was not yet called
Created == [made |-> TRUE, live |-> TRUE, terms |-> 0]

\* mutation: the call of terminate() is left out
NotTerminated(w, live) == w

\* worker.terminate() was invoked on w, leaving it live or not
Terminated(w, live) == [w EXCEPT !.terms = @ + 1, !.live = live]

\* a terminate() that throws may or may not have shut the worker down
AfterFailedTerminate(w) == IF w.live THEN {TRUE, FALSE} ELSE {FALSE}

\* most failures of the image library and the engine in a request that is sent again
MaxFaults == 1

\* results of worker.recognize in a request that is sent again
DetOutputs ==
    { Data(Str(<<"A","T","L","K","\n">>), 90, << >>, << >>),
      Data(Str(<<"A","B">>), 5, << >>, << >>) }

\* results of worker.recognize on a glyph crop in a request that is sent again
DetGlyphs == { Data(Str(<<"A">>), 90, << >>, << >>) }

\* a recognition that returns, returns one of these
InAlphabet ==
    /\ (pc = "recognize" /\ pc' = "terminate") => data' \in DetOutputs
    /\ (pc = "segRecognize" /\ pc' = "glyph") => data' \in DetGlyphs

\* the place of a call of the image library or the engine within a request
Key == <<idx, pc, k>>

\* what such a call leaves behind: where the code goes on, the recognition result,
\* the worker being live, the image
EnvView == <<pc, data, worker.live, processed>>

\* a call that threw or failed
Faulty ==
    \/ caught'
    \/ pc' = "catchTerminate"
    \/ pc \in {"preprocess", "segPreprocess"} /\ pc' = "check"

\* the image library and the engine are functions of their inputs: run 1 notes what
\* they answered at each place, run 2 gets the same answers
Logged ==
    /\ UNCHANGED <<run, first>>
    /\ CASE run = 0 -> UNCHANGED <<env, faults>>
         [] run = 1 -> /\ InAlphabet
                       /\ faults' = faults + (IF Faulty THEN 1 ELSE 0)
                       /\ faults' <= MaxFaults
                       /\ env' = env \cup {<<Key, EnvView'>>}
         [] run = 2 -> /\ <<Key, EnvView'>> \in env
                       /\ UNCHANGED <<env, faults>>

\* mutation: the catch block sends nothing
CaughtSilently ==
    /\ responses' = responses
    /\ caught' = TRUE
    /\ pc' = "done"

\* Buffer.from(base64Data, 'base64'): the bytes of the request's image
Decoded == <<137, 80, 78, 71>>

\* await image.getBuffer('image/png'): a buffer of its own, holding the processed image
Encoded(imageBuffer) == imageBuffer \o <<0>>

\* mutation: runOcr starts from an empty buffer
InitialBufferEmpty(imageBuffer) == << >>

\* let processedBuffer = imageBuffer
InitialBuffer(imageBuffer) == imageBuffer

\* an exception reaches handleOcr's catch: the response of the catch block ends the request
Caught ==
    /\ responses' = Append(responses, CatchResponse)
    /\ caught' = TRUE
    /\ pc' = "done"

\* the attempt returns res to the strategy loop
Return(res) ==
    /\ result' = res
    /\ pc' = "check"

\* mutation: a missing captcha is refused with an error
MissingResponseError == [status |-> 400, field |-> "error", solution |-> Empty]

\* the answer to a request without captcha
MissingResponse == Answer(Empty)

\* body check and base64 decoding
Receive ==
    /\ pc = "received"
    /\ \/ /\ MissingCaptcha(req)
          /\ responses' = Append(responses, MissingResponse)
          /\ pc' = "done"
          /\ UNCHANGED <<caught, buffer>>
       \/ /\ req = "nonstring"
          /\ Caught
          /\ UNCHANGED buffer
       \/ /\ req = "ok"
          /\ buffer' = Decoded
          /\ pc' = "loop"
          /\ UNCHANGED <<responses, caught>>
    /\ UNCHANGED <<selectorVars, sharedVars, replayVars, segmenterVars, normalizerVars>>
    /\ UNCHANGED <<processedBuffer, variant, req, idx, attempted, worker, workers, data, result,
                   finalResult, processed, chosen, k, letters, firstValid, bestSeen>>

\* for (const strategy of strategies): enter the next attempt, or leave the loop
NextStrategy ==
    /\ pc = "loop"
    /\ IF idx < Len(strategies(variant))
       THEN /\ idx' = idx + 1
            /\ attempted' = Append(attempted, idx + 1)
            /\ processedBuffer' = IF IsSegmented(variant, idx + 1) THEN << >>
                                ELSE InitialBuffer(buffer)
            /\ pc' = IF IsSegmented(variant, idx + 1) THEN "segPreprocess"
                     ELSE IF strategies(variant)[idx + 1].preprocess THEN "preprocess"
                     ELSE "createWorker"
       ELSE /\ pc' = "respond"
            /\ UNCHANGED <<idx, attempted, processedBuffer>>
    /\ UNCHANGED <<selectorVars, sharedVars, replayVars, segmenterVars, normalizerVars>>
    /\ UNCHANGED <<buffer, variant, req, worker, workers, data, result, finalResult, responses, caught,
                   processed, chosen, k, letters, firstValid, bestSeen>>

\* mutation: no try / catch around the Jimp pipeline
PreprocessRethrows ==
    /\ Caught
    /\ UNCHANGED result

\* runOcr: catch (error) of the Jimp pipeline: return the failed Candidate
PreprocessFailed ==
    /\ Return(FailedCandidate)
    /\ UNCHANGED <<responses, caught>>

\* runOcr: the Jimp pipeline inside try / catch
Preprocess ==
    /\ pc = "preprocess"
    /\ \/ /\ processedBuffer' = Encoded(buffer)
          /\ pc' = "createWorker"
          /\ UNCHANGED <<result, responses, caught>>
       \/ /\ PreprocessFailed
          /\ UNCHANGED processedBuffer
    /\ UNCHANGED <<selectorVars, sharedVars, segmenterVars, normalizerVars>>
    /\ UNCHANGED <<buffer, variant, req, idx, attempted, worker, workers, data, finalResult,
                   processed, chosen, k, letters, firstValid, bestSeen>>
    /\ Logged

\* runOcr: await createWorker(...), outside any try
CreateWorker ==
    /\ pc = "createWorker"
    /\ \/ /\ worker' = Created
          /\ pc' = "setParameters"
          /\ UNCHANGED <<responses, caught>>
       \/ /\ Caught
          /\ UNCHANGED worker
    /\ UNCHANGED <<selectorVars, sharedVars, segmenterVars, normalizerVars>>
    /\ UNCHANGED <<buffer, processedBuffer, variant, req, idx, attempted, workers, data, result, finalResult,
                   processed, chosen, k, letters, firstValid, bestSeen>>
    /\ Logged

\* runOcr: await worker.setParameters(...), outside any try
SetParameters ==
    /\ pc = "setParameters"
    /\ \/ /\ pc' = "recognize"
          /\ UNCHANGED <<responses, caught>>
       \/ Caught
    /\ UNCHANGED <<selectorVars, sharedVars, segmenterVars, normalizerVars>>
    /\ UNCHANGED <<buffer, processedBuffer, variant, req, idx, attempted, worker, workers, data, result,
                   finalResult, processed, chosen, k, letters, firstValid, bestSeen>>
    /\ Logged

\* runOcr: await worker.recognize(processedBuffer), first statement of the try
Recognize ==
    /\ pc = "recognize"
    /\ \/ /\ \E d \in EngineOutputs : data' = d
          /\ pc' = "terminate"
       \/ /\ pc' = "catchTerminate"
          /\ UNCHANGED data
    /\ UNCHANGED <<selectorVars, sharedVars, segmenterVars, normalizerVars>>
    /\ UNCHANGED <<buffer, processedBuffer, variant, req, idx, attempted, worker, workers, result, finalResult,
                   responses, caught, processed, chosen, k, letters, firstValid, bestSeen>>
    /\ Logged

\* whether the statements after terminate() throw on d, and what they return otherwise
PostThrows(v, d) == IF v = "index" THEN IndexThrows(d) ELSE SelectorThrows(d)

PostCandidate(v, d) ==
    CASE v = "part_001" -> SelectCandidate(d)
      [] v = "part_002" -> PlainCandidate(d)
      [] v = "index" -> IndexCandidate(d)

\* runOcr: await worker.terminate() in the try, then the selection of the Candidate
Terminate ==
    /\ pc = "terminate"
    /\ \/ /\ \E live \in AfterFailedTerminate(worker) : worker' = Terminated(worker, live)
          /\ pc' = "catchTerminate"
          /\ UNCHANGED result
       \/ /\ worker' = Terminated(worker, FALSE)
          /\ IF PostThrows(variant, data)
             THEN pc' = "catchTerminate" /\ UNCHANGED result
             ELSE Return(PostCandidate(variant, data))
    /\ UNCHANGED <<selectorVars, sharedVars, segmenterVars, normalizerVars>>
    /\ UNCHANGED <<buffer, processedBuffer, variant, req, idx, attempted, workers, data, finalResult, responses, caught,
                   processed, chosen, k, letters, firstValid, bestSeen>>
    /\ Logged

\* runOcr: catch (ocrError) { await worker.terminate(); return failed }
CatchTerminate ==
    /\ pc = "catchTerminate"
    /\ \/ /\ worker' = Terminated(worker, FALSE)
          /\ Return(FailedCandidate)
          /\ UNCHANGED <<responses, caught>>
       \/ /\ \E live \in AfterFailedTerminate(worker) : worker' = Terminated(worker, live)
          /\ Caught
          /\ UNCHANGED result
    /\ UNCHANGED <<selectorVars, sharedVars, segmenterVars, normalizerVars>>
    /\ UNCHANGED <<buffer, processedBuffer, variant, req, idx, attempted, workers, data, finalResult, processed,
                   chosen, k, letters, firstValid, bestSeen>>
    /\ Logged

\* the attempt has returned: its locals are gone, its worker joins the ended ones
EndAttempt ==
    /\ workers' = IF worker.made THEN workers \cup {worker} ELSE workers
    /\ worker' = NoWorker
    /\ data' = NoData
    /\ processed' = NoImage
    /\ chosen' = << >>
    /\ k' = 0
    /\ letters' = << >>
    /\ processedBuffer' = << >>

\* the validity test on the attempt's Candidate
Check ==
    /\ pc = "check"
    /\ finalResult' = NextFinal(variant, result, finalResult)
    /\ pc' = AfterCheck(variant, result)
    /\ result' = NoResult
    /\ EndAttempt
    /\ firstValid' = IF firstValid = NoValid /\ Accepts(variant, result)
                     THEN [idx |-> idx, text |-> result.text,
                           confidence |-> result.confidence]
                     ELSE firstValid
    /\ bestSeen' = IF RGt(result.confidence, bestSeen.confidence) THEN result ELSE bestSeen
    /\ UNCHANGED <<selectorVars, sharedVars, replayVars, segmenterVars, normalizerVars>>
    /\ UNCHANGED <<buffer, variant, req, idx, attempted, responses, caught>>

\* res.json({ solution: finalResult }) after the loop
Respond ==
    /\ pc = "respond"
    /\ responses' = Append(responses, Answer(finalResult))
    /\ pc' = "done"
    /\ UNCHANGED caught
    /\ UNCHANGED <<selectorVars, sharedVars, replayVars, segmenterVars, normalizerVars>>
    /\ UNCHANGED <<buffer, processedBuffer, variant, req, idx, attempted, worker, workers, data, result,
                   finalResult, processed, chosen, k, letters, firstValid, bestSeen>>

\* runOcrSegmented: catch (e) of the Jimp pipeline: return the failed Candidate
SegPreprocessFailed ==
    /\ Return(FailedCandidate)
    /\ UNCHANGED <<responses, caught>>

\* runOcrSegmented: the Jimp pipeline inside try / catch, then the column scan
SegPreprocess ==
    /\ pc = "segPreprocess"
    /\ \/ /\ \E img \in Images :
                /\ processed' = img
                /\ chosen' = Chosen(Segments(img))
          /\ pc' = "segCreateWorker"
          /\ UNCHANGED <<result, responses, caught>>
       \/ /\ SegPreprocessFailed
          /\ UNCHANGED <<processed, chosen>>
    /\ UNCHANGED <<selectorVars, sharedVars, segmenterVars, normalizerVars>>
    /\ UNCHANGED <<buffer, processedBuffer, variant, req, idx, attempted, worker, workers, data, finalResult,
                   k, letters, firstValid, bestSeen>>
    /\ Logged

\* runOcrSegmented: await createWorker(...)
SegCreateWorker ==
    /\ pc = "segCreateWorker"
    /\ \/ /\ worker' = Created
          /\ pc' = "segSetParameters"
          /\ UNCHANGED <<responses, caught>>
       \/ /\ Caught
          /\ UNCHANGED worker
    /\ UNCHANGED <<selectorVars, sharedVars, segmenterVars, normalizerVars>>
    /\ UNCHANGED <<buffer, processedBuffer, variant, req, idx, attempted, workers, data, result, finalResult,
                   processed, chosen, k, letters, firstValid, bestSeen>>
    /\ Logged

\* runOcrSegmented: await worker.setParameters(...), then const letters = []
SegSetParameters ==
    /\ pc = "segSetParameters"
    /\ \/ /\ pc' = "glyph"
          /\ k' = 1
          /\ letters' = << >>
          /\ UNCHANGED <<responses, caught>>
       \/ /\ Caught
          /\ UNCHANGED <<k, letters>>
    /\ UNCHANGED <<selectorVars, sharedVars, segmenterVars, normalizerVars>>
    /\ UNCHANGED <<buffer, processedBuffer, variant, req, idx, attempted, worker, workers, data, result,
                   finalResult, processed, chosen, firstValid, bestSeen>>
    /\ Logged

\* runOcrSegmented: for (const seg of chosen): clone, crop, autocrop, getBuffer
GlyphCrop ==
    /\ pc = "glyph"
    /\ IF k > Len(chosen)
       THEN pc' = "segTerminate" /\ UNCHANGED <<responses, caught>>
       ELSE \/ pc' = "segRecognize" /\ UNCHANGED <<responses, caught>>
            \/ Caught
    /\ UNCHANGED <<selectorVars, sharedVars, segmenterVars, normalizerVars>>
    /\ UNCHANGED <<buffer, processedBuffer, variant, req, idx, attempted, worker, workers, data, result,
                   finalResult, processed, chosen, k, letters, firstValid, bestSeen>>
    /\ Logged

\* runOcrSegmented: await worker.recognize(b) and the rest of the loop body
SegRecognize ==
    /\ pc = "segRecognize"
    /\ \/ \E d \in GlyphOutputs :
            /\ data' = d
            /\ IF d.text.k = "num"
               THEN Caught /\ UNCHANGED <<k, letters>>
               ELSE /\ letters' = PushLetter(letters, d, chosen[k])
                    /\ k' = k + 1
                    /\ pc' = "glyph"
                    /\ UNCHANGED <<responses, caught>>
       \/ /\ Caught
          /\ UNCHANGED <<data, k, letters>>
    /\ UNCHANGED <<selectorVars, sharedVars, segmenterVars, normalizerVars>>
    /\ UNCHANGED <<buffer, processedBuffer, variant, req, idx, attempted, worker, workers, result, finalResult,
                   processed, chosen, firstValid, bestSeen>>
    /\ Logged

\* runOcrSegmented: await worker.terminate() after the loop, then the post-filter
SegTerminate ==
    /\ pc = "segTerminate"
    /\ \/ /\ \E live \in AfterFailedTerminate(worker) : worker' = Terminated(worker, live)
          /\ Caught
          /\ UNCHANGED result
       \/ /\ worker' = Terminated(worker, FALSE)
          /\ Return(SegmentedCandidate(letters))
          /\ UNCHANGED <<responses, caught>>
    /\ UNCHANGED <<selectorVars, sharedVars, segmenterVars, normalizerVars>>
    /\ UNCHANGED <<buffer, processedBuffer, variant, req, idx, attempted, workers, data, finalResult, processed,
                   chosen, k, letters, firstValid, bestSeen>>
    /\ Logged

Next ==
    \/ Receive
    \/ NextStrategy
    \/ Preprocess
    \/ CreateWorker
    \/ SetParameters
    \/ Recognize
    \/ Terminate
    \/ CatchTerminate
    \/ Check
    \/ Respond
    \/ SegPreprocess
    \/ SegCreateWorker
    \/ SegSetParameters
    \/ GlyphCrop
    \/ SegRecognize
    \/ SegTerminate

Spec == Init /\ [][Next]_vars

\* every await of the request settles: the image library and the engine return or throw
LiveSpec == Spec /\ WF_vars(Next)

\* mutation: the loop goes on from the strategy the previous request stopped at
StaleIndex(last) == last

\* for (const strategy of strategies): every call of handleOcr iterates from the start
FreshIndex(last) == 0

\* the same request is sent again once it has been answered: handleOcr is called anew,
\* with new locals
Rerun ==
    /\ run = 1
    /\ pc = "done"
    /\ run' = 2
    /\ first' = [attempted |-> attempted, responses |-> responses]
    /\ pc' = "received"
    /\ idx' = FreshIndex(idx)
    /\ attempted' = << >>
    /\ worker' = NoWorker
    /\ workers' = {}
    /\ data' = NoData
    /\ result' = NoResult
    /\ finalResult' = Empty
    /\ responses' = << >>
    /\ caught' = FALSE
    /\ processed' = NoImage
    /\ chosen' = << >>
    /\ k' = 0
    /\ letters' = << >>
    /\ firstValid' = NoValid
    /\ bestSeen' = NoResult
    /\ buffer' = << >>
    /\ processedBuffer' = << >>
    /\ UNCHANGED <<variant, req, env, faults, selectorVars, sharedVars, segmenterVars, normalizerVars>>

DetInit ==
    /\ variant \in {"part_001", "part_002"}
    /\ HandlerInit
    /\ SelectorIdle
    /\ SharedIdle
    /\ SegmenterIdle
    /\ NormalizerIdle
    /\ run = 1
    /\ env = {}
    /\ first = NoFirst
    /\ faults = 0

DetNext ==
    \/ Next
    \/ Rerun

\* a request and the same request again, the image library and the engine answering
\* the second time as they did the first
DetSpec == DetInit /\ [][DetNext]_vars

----------------------------------------------------------------------------
(* the Candidate Selector on its own: runOcr's lines 78-140 applied to a      *)
(* recognition result                                                         *)

\* most symbols of a generated symbol list
MaxSymbols == 4

\* most words of a generated word list
MaxWords == 2

\* the symbols the generated lists are made of, placed at horizontal position x
SymbolOf(kind, x) ==
    CASE kind = 1 -> Sym(<<"C">>, 11, Box(10, None, None, x, None))
      [] kind = 2 -> Sym(<<"A">>, 90, Box(10, None, None, x, None))
      [] kind = 3 -> Sym(<<"t">>, 90, TessBox(x, 0, 10))
      [] kind = 4 -> Sym(<<"L">>, 60, Box(5, None, None, x, None))
      [] kind = 5 -> Sym(<<"K">>, 90, TessBox(x, 12, 10))
      [] kind = 6 -> Sym(<<"1">>, 99, Box(30, None, None, x, None))
      [] kind = 7 -> Sym(<<"E">>, 70, Box(None, None, None, None, None))

SymbolKinds == 1..7

\* data.symbols for the kinds given left to right: the array holds them right to left
SymbolList(kinds) ==
    [i \in 1..Len(kinds) |-> SymbolOf(kinds[Len(kinds) + 1 - i], 10 * (Len(kinds) + 1 - i))]

\* symbols of equal height given left to right as <<character, confidence>>
EqualHeightList(syms) ==
    [i \in 1..Len(syms) |-> Sym(<<syms[i][1]>>, syms[i][2], TessBox(10 * i, 0, 10))]

SymbolLists ==
    { SymbolList(kinds) : kinds \in UNION {[1..n -> SymbolKinds] : n \in 0..MaxSymbols} }
    \cup { EqualHeightList(<< <<"C", 5>>, <<"A", 90>>, <<"T", 90>>, <<"L", 90>>, <<"K", 90>> >>),
           EqualHeightList(<< <<"K", 82>>, <<"A", 82>>, <<"T", 82>>, <<"L", 82>>, <<"E", 82>> >>),
           EqualHeightList(<< <<"C", 12>>, <<"A", 90>>, <<"T", 90>>, <<"L", 90>>, <<"K", 90>>,
                              <<"E", 90>> >>),
           EqualHeightList([i \in 1..11 |-> <<"A", 99>>]) }

WordOf(kind) ==
    CASE kind = 1 -> [text |-> Str(<<"A","T","L","K">>), confidence |-> 90]
      [] kind = 2 -> [text |-> Str(<<"a","e">>), confidence |-> 99]
      [] kind = 3 -> [text |-> Str(<<"t","-","l","1","k">>), confidence |-> 85]
      [] kind = 4 -> [text |-> Str([i \in 1..11 |-> "A"]), confidence |-> 99]
      [] kind = 5 -> [text |-> Str(<<"K","L","E">>), confidence |-> 90]
      [] kind = 6 -> [text |-> Str(<<"E","L","K">>), confidence |-> None]

WordKinds == 1..6

WordLists ==
    { [i \in 1..Len(kinds) |-> WordOf(kinds[i])] :
         kinds \in UNION {[1..n -> WordKinds] : n \in 0..MaxWords} }

\* data.text and data.confidence of the generated results
FullTexts ==
    { <<Str(<<"A","B">>), 92>>, <<Str(<<"A","B">>), 90>>, <<Str(<<"a","e","\n">>), 85>>,
      <<Str(<<"A","T","L","K">>), 80>>, <<Undef, None>> }

\* recognition results the selector is run on: word lists without symbols, and
\* symbol lists with at most one word
SelectorInputs ==
    { Data(b[1], b[2], w, << >>) : b \in FullTexts, w \in WordLists }
    \cup { Data(b[1], b[2], w, s) :
             b \in { <<Str(<<"A","B">>), 92>>, <<Str(<<"A","T","L","K">>), 80>>,
                     <<Undef, None>> },
             w \in { << >>, << WordOf(1) >> },
             s \in SymbolLists }

SelectorInit ==
    /\ variant = "part_001"
    /\ req = "ok"
    /\ HandlerInit
    /\ recognized \in SelectorInputs
    /\ stage = "recognized"
    /\ bestText = Empty
    /\ bestConf = R(0)
    /\ symCandidate = Empty
    /\ SharedIdle
    /\ SegmenterIdle
    /\ NormalizerIdle
    /\ ReplayIdle

\* lines 78-80: the full text is the baseline
SelBaseline ==
    /\ stage = "recognized"
    /\ bestText' = baseText(recognized)
    /\ bestConf' = R(OrZero(recognized.confidence))
    /\ stage' = "words"
    /\ UNCHANGED <<recognized, symCandidate>>
    /\ UNCHANGED <<handlerVars, sharedVars, replayVars, segmenterVars, normalizerVars>>

\* lines 82-92: the words stage
SelWords ==
    /\ stage = "words"
    /\ LET best == WordStage(recognized)
       IN /\ bestText' = best.text
          /\ bestConf' = best.conf
    /\ stage' = "symbols"
    /\ UNCHANGED <<recognized, symCandidate>>
    /\ UNCHANGED <<handlerVars, sharedVars, replayVars, segmenterVars, normalizerVars>>

\* lines 94-140: the symbols stage and the return
SelSymbols ==
    /\ stage = "symbols"
    /\ LET best == SymbolStage(recognized, [text |-> bestText, conf |-> bestConf])
       IN /\ bestText' = best.text
          /\ bestConf' = best.conf
    /\ symCandidate' = IF Len(recognized.symbols) > 0
                       THEN SymbolCandidate(Selected(RawSymbols(recognized)))
                       ELSE Empty
    /\ stage' = "returned"
    /\ UNCHANGED recognized
    /\ UNCHANGED <<handlerVars, sharedVars, replayVars, segmenterVars, normalizerVars>>

SelectorNext ==
    \/ SelBaseline
    \/ SelWords
    \/ SelSymbols

SelectorSpec == SelectorInit /\ [][SelectorNext]_vars

----------------------------------------------------------------------------
(* part_003: handleOcr with one worker kept in a module variable; requests  *)
(* interleave at their awaits                                               *)

NewEngine == [configured |-> FALSE, terminated |-> FALSE, threw |-> FALSE, calls |-> 0]

\* a call is issued on engine w
Begin(eng, w) == [eng EXCEPT ![w].calls = @ + 1]

\* a call on engine w returns
End(eng, w) == [eng EXCEPT ![w].calls = @ - 1]

\* a call on engine w throws
Threw(eng, w) == [eng EXCEPT ![w].calls = @ - 1, ![w].threw = TRUE]

Reply(status, field) == [status |-> status, field |-> field]

\* res.status(500).json({ error: 'Failed to process captcha' })
FailureReply == Reply(500, "error")

\* the catch block up to its first await: with a worker, terminate() is called on it;
\* without one the request is answered at once
EnterCatch(r, eng) ==
    /\ IF globalWorker # 0
       THEN /\ where' = [where EXCEPT ![r] = "terminating"]
            /\ target' = [target EXCEPT ![r] = globalWorker]
            /\ engines' = Begin(eng, globalWorker)
            /\ replies' = [replies EXCEPT ![r] = NoReply]
       ELSE /\ where' = [where EXCEPT ![r] = "done"]
            /\ target' = [target EXCEPT ![r] = 0]
            /\ engines' = eng
            /\ replies' = [replies EXCEPT ![r] = FailureReply]
    /\ UNCHANGED globalWorker

\* the worker.recognize(processedBuffer) call of line 52, on whatever 'worker' is now
CallRecognize(r, eng) ==
    IF globalWorker = 0
    THEN EnterCatch(r, eng)
    ELSE /\ where' = [where EXCEPT ![r] = "recognizing"]
         /\ target' = [target EXCEPT ![r] = globalWorker]
         /\ engines' = Begin(eng, globalWorker)
         /\ UNCHANGED <<replies, globalWorker>>

\* a request arrives: lines 20-34, up to the await of Jimp.read
SharedArrive(r) ==
    /\ where[r] \in {"idle", "done"}
    /\ arrivals < MaxArrivals
    /\ arrivals' = arrivals + 1
    /\ stale' = [stale EXCEPT ![r] = {w \in 1..Len(engines) : engines[w].threw}]
    /\ \E body \in Requests :
          CASE body \in {"nocaptcha", "emptycaptcha"} ->
                 /\ where' = [where EXCEPT ![r] = "done"]
                 /\ replies' = [replies EXCEPT ![r] = Reply(400, "error")]
                 /\ UNCHANGED <<globalWorker, engines, target>>
            [] body \in {"nobody", "nonstring"} -> EnterCatch(r, engines)
            [] body = "ok" ->
                 /\ where' = [where EXCEPT ![r] = "read"]
                 /\ replies' = [replies EXCEPT ![r] = NoReply]
                 /\ UNCHANGED <<globalWorker, engines, target>>
    /\ UNCHANGED <<handlerVars, selectorVars, replayVars,
                   segmenterVars, normalizerVars>>

\* await Jimp.read(buffer) returns or throws; lines 35-36 up to the await of getBuffer
SharedRead(r) ==
    /\ where[r] = "read"
    /\ \/ /\ where' = [where EXCEPT ![r] = "getBuffer"]
          /\ UNCHANGED <<globalWorker, engines, target, replies>>
       \/ EnterCatch(r, engines)
    /\ UNCHANGED <<stale, arrivals, handlerVars, selectorVars, replayVars,
                   segmenterVars, normalizerVars>>

\* await image.getBuffer returns or throws; then if (!worker) createWorker is called,
\* else worker.recognize
SharedGetBuffer(r) ==
    /\ where[r] = "getBuffer"
    /\ \/ IF globalWorker = 0
          THEN /\ where' = [where EXCEPT ![r] = "creating"]
               /\ UNCHANGED <<globalWorker, engines, target, replies>>
          ELSE CallRecognize(r, engines)
       \/ EnterCatch(r, engines)
    /\ UNCHANGED <<stale, arrivals, handlerVars, selectorVars, replayVars,
                   segmenterVars, normalizerVars>>

\* await createWorker returns or throws; worker = the new one, setParameters is called
SharedCreateWorker(r) ==
    /\ where[r] = "creating"
    /\ \/ /\ engines' = Append(engines, Begin(<<NewEngine>>, 1)[1])
          /\ globalWorker' = Len(engines) + 1
          /\ where' = [where EXCEPT ![r] = "configuring"]
          /\ target' = [target EXCEPT ![r] = Len(engines) + 1]
          /\ UNCHANGED replies
       \/ EnterCatch(r, engines)
    /\ UNCHANGED <<stale, arrivals, handlerVars, selectorVars, replayVars,
                   segmenterVars, normalizerVars>>

\* await worker.setParameters returns or throws; then worker.recognize is called
SharedSetParameters(r) ==
    /\ where[r] = "configuring"
    /\ \/ /\ ~engines[target[r]].terminated
          /\ CallRecognize(r, [End(engines, target[r]) EXCEPT ![target[r]].configured = TRUE])
       \/ EnterCatch(r, Threw(engines, target[r]))
    /\ UNCHANGED <<stale, arrivals, handlerVars, selectorVars, replayVars,
                   segmenterVars, normalizerVars>>

\* await worker.recognize returns or throws; text.trim() and res.json({ solution })
SharedRecognize(r) ==
    /\ where[r] = "recognizing"
    /\ \/ /\ ~engines[target[r]].terminated
          /\ engines' = End(engines, target[r])
          /\ where' = [where EXCEPT ![r] = "done"]
          /\ target' = [target EXCEPT ![r] = 0]
          /\ replies' = [replies EXCEPT ![r] = Reply(200, "solution")]
          /\ UNCHANGED globalWorker
       \/ /\ ~engines[target[r]].terminated
          /\ EnterCatch(r, End(engines, target[r]))
       \/ EnterCatch(r, Threw(engines, target[r]))
    /\ UNCHANGED <<stale, arrivals, handlerVars, selectorVars, replayVars,
                   segmenterVars, normalizerVars>>

\* try { await worker.terminate(); } catch (e) {} is over; worker = null; answer 500
SharedTerminate(r) ==
    /\ where[r] = "terminating"
    /\ \E dead \in BOOLEAN :
          engines' = [End(engines, target[r]) EXCEPT ![target[r]].terminated = @ \/ dead]
    /\ globalWorker' = 0
    /\ where' = [where EXCEPT ![r] = "done"]
    /\ target' = [target EXCEPT ![r] = 0]
    /\ replies' = [replies EXCEPT ![r] = FailureReply]
    /\ UNCHANGED <<stale, arrivals, handlerVars, selectorVars, replayVars,
                   segmenterVars, normalizerVars>>

SharedInit ==
    /\ variant = "part_001"
    /\ req = "ok"
    /\ HandlerInit
    /\ SelectorIdle
    /\ SharedIdle
    /\ SegmenterIdle
    /\ NormalizerIdle
    /\ ReplayIdle

SharedNext ==
    \/ \E r \in Slots : SharedArrive(r)
    \/ \E r \in Slots : SharedRead(r)
    \/ \E r \in Slots : SharedGetBuffer(r)
    \/ \E r \in Slots : SharedCreateWorker(r)
    \/ \E r \in Slots : SharedSetParameters(r)
    \/ \E r \in Slots : SharedRecognize(r)
    \/ \E r \in Slots : SharedTerminate(r)

SharedSpec == SharedInit /\ [][SharedNext]_vars

----------------------------------------------------------------------------
(* the segmentation on its own: runOcrSegmented's lines 163-212 applied to a  *)
(* binarized image                                                            *)

\* most blocks of the generated part of an image
MaxBlocks == 4

\* width of the background at the right of the wide image: 350 columns in all
WideGap == 325

\* height of the tall image
TallH == 100

\* pieces of an image, as runs <<width, ink rows>>: a run of ink columns and the gap
\* at its right
BlockOf(kind) ==
    CASE kind = 1 -> << <<6, ImgH>>, <<1, 0>> >>
      [] kind = 2 -> << <<7, 2>>, <<3, 1>> >>
      [] kind = 3 -> << <<5, ImgH>>, <<2, 0>> >>
      [] kind = 4 -> << <<6, ImgH>>, <<2, 0>> >>

BlockKinds == 1..4

RECURSIVE BlockRuns(_)
BlockRuns(kinds) ==
    IF kinds = << >> THEN << >> ELSE BlockOf(Head(kinds)) \o BlockRuns(Tail(kinds))

\* images the segmentation is run on: a fixed left part, a generated part, and
\* possibly a run of ink that touches the right edge
SegmenterImages ==
    { Bitmap(Columns(BlockRuns(lead \o tail) \o edge)) :
        lead \in { << >>, <<1, 1, 1, 1>>, <<2, 4, 2, 4>> },
        tail \in UNION {[1..n -> BlockKinds] : n \in 0..MaxBlocks},
        edge \in { << >>, << <<6, ImgH>> >> } }
    \cup { Bitmap(Columns(<< <<6, ImgH>>, <<2, 0>>, <<7, ImgH>>, <<2, 0>>, <<8, 2>>,
                             <<WideGap, 0>> >>)),
           BitmapOfHeight(Columns(<< <<6, 3>>, <<1, 0>>, <<6, 2>>, <<1, 1>>, <<7, TallH>> >>),
                          TallH) }

SegmenterInit ==
    /\ variant = "part_001"
    /\ req = "ok"
    /\ HandlerInit
    /\ SelectorIdle
    /\ SharedIdle
    /\ ReplayIdle
    /\ NormalizerIdle
    /\ bitmap \in SegmenterImages
    /\ segList = << >>
    /\ phase = "image"

\* lines 163-193: the projection and the column scan
SegScan ==
    /\ phase = "image"
    /\ segList' = RawSegments(bitmap)
    /\ phase' = "scanned"
    /\ UNCHANGED bitmap
    /\ UNCHANGED <<handlerVars, selectorVars, sharedVars, replayVars, normalizerVars>>

\* lines 194-209: the merge of near segments
SegMerge ==
    /\ phase = "scanned"
    /\ segList' = MergeSegments(segList)
    /\ phase' = "merged"
    /\ UNCHANGED bitmap
    /\ UNCHANGED <<handlerVars, selectorVars, sharedVars, replayVars, normalizerVars>>

\* lines 210-212: segs.sort(...), take, chosen
SegChoose ==
    /\ phase = "merged"
    /\ segList' = Chosen(SortByKey(segList, [i \in 1..Len(segList) |-> segList[i].start]))
    /\ phase' = "chosen"
    /\ UNCHANGED bitmap
    /\ UNCHANGED <<handlerVars, selectorVars, sharedVars, replayVars, normalizerVars>>

SegmenterNext ==
    \/ SegScan
    \/ SegMerge
    \/ SegChoose

SegmenterSpec == SegmenterInit /\ [][SegmenterNext]_vars

----------------------------------------------------------------------------
(* part_002's normalize on its own *)

\* greatest length of a generated argument
MaxRawLen == 6

\* the arguments normalize is called with: generated strings, and strings that hold
\* SVNG or spell CATLE
NormalizerInputs ==
    UNION {[1..n -> {"C", "E", "A", "e", "1"}] : n \in 0..MaxRawLen}
    \cup { <<"S","V","N","G">>, <<"C","S","V","N","G","E">>, <<"A","S","V","N","G","A","A">>,
           <<"S","V","N","E">>, <<"C","A","T","L","E">>, <<"c","A","t","L","e"," ","1">>,
           <<"C","A","T","L","E","E">>, <<"A","C","A","T","L","E">> }

NormalizerInit ==
    /\ variant = "part_002"
    /\ req = "ok"
    /\ HandlerInit
    /\ SelectorIdle
    /\ SharedIdle
    /\ ReplayIdle
    /\ SegmenterIdle
    /\ rawText \in NormalizerInputs
    /\ normalized = Empty
    /\ returned = FALSE

\* const normalized = normalize(result.text)
Normalize ==
    /\ ~returned
    /\ normalized' = normalize(rawText)
    /\ returned' = TRUE
    /\ UNCHANGED rawText
    /\ UNCHANGED <<handlerVars, selectorVars, sharedVars, replayVars, segmenterVars>>

NormalizerSpec == NormalizerInit /\ [][Normalize]_vars

----------------------------------------------------------------------------
(* properties *)

AZOnly(t) == \A i \in 1..Len(t) : t[i] \in AZ

\* the solution sent, once the request is answered
Solution == responses[1].solution

\* the loop ran to its end without any Candidate passing and without an exception
Exhausted == pc = "done" /\ req = "ok" /\ ~caught /\ firstValid = NoValid

\* C1: once a strategy's Candidate has passed the validity test, no later strategy
\* is started and no worker is acquired or held: the attempts are exactly those up to
\* the accepting one and the handler only has its answer left to send.
C1_ShortCircuit ==
    firstValid # NoValid =>
        /\ attempted = [i \in 1..firstValid.idx |-> i]
        /\ worker = NoWorker
        /\ pc \in {"respond", "done"}

\* part_001 accepts at its third strategy and answers with six strategies never started
C1_Witness ==
    /\ variant = "part_001"
    /\ pc = "done"
    /\ firstValid.idx = 3
    /\ attempted = <<1, 2, 3>>
    /\ workers # {}

\* C2 as stated: the solution is the text of the first passing Candidate itself.
C2_FirstPassingText ==
    (pc = "done" /\ firstValid # NoValid) => responses = <<Answer(firstValid.text)>>

\* C2 amended: strategies are attempted in list order, and the solution is the text
\* of the first passing Candidate, in part_002 as normalize returns it.
C2_FirstPassingWins ==
    /\ \A i \in 1..Len(attempted) : attempted[i] = i
    /\ (pc = "done" /\ firstValid # NoValid) =>
           responses = <<Answer(IF variant = "part_002" THEN normalize(firstValid.text)
                                ELSE firstValid.text)>>

\* answered with the second or a later strategy's text although an earlier, rejected
\* Candidate had a higher confidence
C2_Witness ==
    /\ pc = "done"
    /\ firstValid.idx >= 2
    /\ RGt(bestSeen.confidence, firstValid.confidence)
    /\ bestSeen.text # firstValid.text
    /\ Solution # Empty

\* C3: when no Candidate passes, the answer is the text of the highest-confidence
\* Candidate seen if that confidence exceeds 30, and the empty string otherwise.
C3_BestEffort ==
    (Exhausted /\ variant \in {"part_001", "part_002"}) =>
        Solution = (IF RGt(bestSeen.confidence, R(30)) THEN bestSeen.text ELSE Empty)

\* C4: when no Candidate passes and every Candidate's confidence is at most 30, the
\* answer is { solution: "" }.
C4_ExhaustionEmpty ==
    (pc = "done" /\ firstValid = NoValid /\ ~RGt(bestSeen.confidence, R(30))) =>
        responses = <<Answer(Empty)>>

\* every strategy ran, one of them read a non-empty text at a confidence in 1..30,
\* none passed, and the answer is empty
C4_Witness ==
    /\ Exhausted
    /\ Len(attempted) = Len(strategies(variant))
    /\ bestSeen.text # Empty
    /\ ~RGt(bestSeen.confidence, R(30))
    /\ responses = <<Answer(Empty)>>

\* C5: whatever fails, the request ends with exactly one response, of status 200,
\* whose body has a string field solution.
C5_AlwaysSolution ==
    /\ Len(responses) <= 1
    /\ pc = "done" =>
          /\ Len(responses) = 1
          /\ responses[1].status = 200
          /\ responses[1].field = "solution"
          /\ responses[1].solution \in Seq(AZ \cup {" ", "\n", "1", "a", "c", "e", "k", "l", "t"})

\* the recognition of a glyph threw in segmented mode, with the worker still live
C5_Witness ==
    /\ pc = "done"
    /\ caught
    /\ idx >= 1
    /\ IsSegmented(variant, idx)
    /\ worker.live
    /\ k >= 2
    /\ responses = <<Answer(Empty)>>

\* C6: the text of every Candidate an attempt returns, and so every solution, is
\* empty or made of the letters A-Z only.
C6_TextIsAZ ==
    /\ AZOnly(result.text)
    /\ AZOnly(finalResult)
    /\ \A r \in 1..Len(responses) : AZOnly(responses[r].solution)

\* runOcr returned a non-empty text for a full text that held other characters
C6_Witness ==
    /\ pc = "check"
    /\ result.text # Empty
    /\ data.text.k = "str"
    /\ ~AZOnly(data.text.s)

C8_TerminateOnce ==
    variant = "part_001" =>
        /\ \A w \in workers : w.terms = 1
        /\ (pc = "done" /\ worker.made) => worker.terms = 1

\* C9: when a strategy begins, the workers of the earlier strategies are shut down;
\* the request has at most one live worker.
C9_ReleasedBeforeNext ==
    /\ \A w \in workers : ~w.live
    /\ pc \in {"loop", "preprocess", "createWorker", "segPreprocess", "segCreateWorker",
               "respond"} => worker = NoWorker

\* the second strategy begins after the first one created and terminated a worker
C9_Witness ==
    /\ pc \in {"preprocess", "createWorker"}
    /\ idx = 2
    /\ \E w \in workers : w.made /\ w.terms >= 1

\* C10: when the transform pipeline throws, the attempt returns the failed Candidate
\* with no worker acquired and nothing reaches the handler's catch; the loop then goes
\* on, and the next strategy of the list is started.
C10_TransformFailureSkips ==
    [][ /\ (pc \in {"preprocess", "segPreprocess"}
            /\ pc' \notin {"createWorker", "segCreateWorker"}) =>
               /\ pc' = "check"
               /\ result' = FailedCandidate
               /\ worker' = NoWorker
               /\ ~caught'
               /\ responses' = responses
        /\ (pc = "check" /\ result = FailedCandidate) => (pc' = "loop" /\ ~caught')
        /\ (pc = "loop" /\ idx < Len(strategies(variant))) =>
               attempted' = Append(attempted, idx + 1) ]_vars

\* the first strategy ended without a worker and without an answer, the second one
\* holds a worker
C10_Witness ==
    /\ variant = "part_001"
    /\ attempted = <<1, 2>>
    /\ workers = {}
    /\ worker.made
    /\ responses = << >>

\* C11: when the engine throws during an attempt (createWorker, setParameters or a
\* recognize call, of runOcr or of runOcrSegmented), the request does not end there:
\* the attempt goes on to return the failed Candidate, the loop takes it to the next
\* strategy and never back to the same one.
C11_EngineFailureSkips ==
    [][ variant = "part_001" =>
          /\ (pc \in {"createWorker", "setParameters", "recognize",
                      "segCreateWorker", "segSetParameters"}) => pc' # "done"
          /\ (pc = "segRecognize" /\ data' = data) => pc' # "done"
          /\ (pc = "catchTerminate" /\ pc' = "check") => result' = FailedCandidate
          /\ (pc = "check" /\ result = FailedCandidate) => pc' = "loop"
          /\ (pc = "loop" /\ idx < Len(strategies(variant))) =>
                 attempted' = Append(attempted, idx + 1) ]_vars

\* C15: a request without a body, without a captcha field or with an empty captcha
\* is answered {solution: ""} and nothing else: no strategy is started and no worker
\* is created for it at any time.
C15_MissingCaptcha ==
    MissingCaptcha(req) =>
        /\ attempted = << >>
        /\ worker = NoWorker
        /\ workers = {}
        /\ pc \in {"received", "done"}
        /\ pc = "done" => responses = << Answer(Empty) >>

\* a request with an empty captcha has been answered
C15_Witness ==
    /\ req = "emptycaptcha"
    /\ pc = "done"
    /\ Len(responses) = 1
    /\ Solution = Empty

\* a bounding box that gives a height, as h or as y0 and y1
HasHeight(b) == b.h # None \/ (b.y0 # None /\ b.y1 # None)

\* C16: once the symbols stage has run, no A-Z symbol whose box height (bbox.h, or
\* |y1 - y0|) is below 60% of the median height has its character in the
\* symbol-derived candidate, unless the median is 0.
C16_HeightFilter ==
    (stage = "returned" /\ Len(recognized.symbols) > 0) =>
        LET raw == RawSymbols(recognized)
            m == medianH(raw)
        IN \A i \in 1..Len(raw) :
              (HasHeight(raw[i].bbox) /\ m # 0 /\ 10 * BoxHeight(raw[i].bbox) < 6 * m) =>
                  ~ \E j \in 1..Len(symCandidate) : symCandidate[j] = raw[i].ch[1]

\* C17: when the leftmost symbol that survives the filters is a 'C' of confidence
\* below 12 and another symbol survives, the symbol-derived candidate is made of the
\* other survivors only; the list C 5, A 90, T 90, L 90, K 90 of equal heights gives
\* the candidate and the returned text ATLK.
C17_LeadingCDropped ==
    (stage = "returned" /\ Len(recognized.symbols) > 0) =>
        LET survivors == Selected(RawSymbols(recognized))
        IN /\ (Len(survivors) >= 2 /\ survivors[1].ch = <<"C">> /\ survivors[1].conf < 12) =>
                  symCandidate = [i \in 1..(Len(survivors) - 1) |-> survivors[i + 1].ch[1]]
           /\ recognized.symbols =
                  EqualHeightList(<< <<"C", 5>>, <<"A", 90>>, <<"T", 90>>, <<"L", 90>>,
                                     <<"K", 90>> >>) =>
                  /\ symCandidate = <<"A", "T", "L", "K">>
                  /\ bestText = <<"A", "T", "L", "K">>

\* the list C 5, A 90, T 90, L 90, K 90 was given with the full text AB and came
\* back as ATLK
C17_ExampleReached ==
    /\ stage = "returned"
    /\ recognized.symbols =
           EqualHeightList(<< <<"C", 5>>, <<"A", 90>>, <<"T", 90>>, <<"L", 90>>, <<"K", 90>> >>)
    /\ baseText(recognized) = <<"A", "B">>
    /\ bestText = <<"A", "T", "L", "K">>
    /\ bestConf = R(90)

\* a 'C' of confidence 11 survived the filters at the left of two other symbols and
\* is not in the candidate
C17_Witness ==
    /\ stage = "returned"
    /\ Len(Selected(RawSymbols(recognized))) = 3
    /\ Selected(RawSymbols(recognized))[1].conf = 11
    /\ Len(symCandidate) = 2

\* C19: the words stage replaces the full-text baseline exactly when some word has
\* an A-Z-stripped length in [3,10] and the highest confidence among such words is
\* at least the baseline confidence; the new text is then such a word of highest
\* confidence; in every other case text and confidence stay as they were.
C19_WordStage ==
    [][ stage = "words" =>
          LET d == recognized
              stripped(i) == StripAZ(ToUpper(OrEmpty(d.words[i].text)))
              conf(i) == OrZero(d.words[i].confidence)
              eligible == {i \in 1..Len(d.words) :
                              Len(stripped(i)) >= 3 /\ Len(stripped(i)) <= 10}
              top == {i \in eligible : \A j \in eligible : conf(i) >= conf(j)}
          IN IF \E i \in top : RGeq(R(conf(i)), bestConf)
             THEN \E i \in top : bestText' = stripped(i) /\ bestConf' = R(conf(i))
             ELSE bestText' = bestText /\ bestConf' = bestConf ]_vars

\* the word t-l1k of confidence 85 replaced the full text AE of confidence 85
C19_Witness ==
    /\ stage = "symbols"
    /\ baseText(recognized) = <<"A", "E">>
    /\ recognized.confidence = 85
    /\ bestText = <<"T", "L", "K">>
    /\ bestConf = R(85)

\* C20: the symbols stage replaces the baseline by the symbol-derived candidate and
\* the average confidence of the kept symbols exactly when the candidate's length is
\* in [3,10] and average + bonus >= baseline confidence + (10 for a baseline text of
\* length 4), the bonus being 10, 6, 4, 2 for lengths 4, 5, 6, 3 and 0 otherwise; in
\* every other case text and confidence stay as they were.
C20_SymbolReplaces ==
    [][ stage = "symbols" =>
          LET kept == Selected(RawSymbols(recognized))
              avg == IF Len(recognized.symbols) > 0 THEN avgConfSel(kept) ELSE R(0)
              n == Len(symCandidate')
              bonus == CASE n = 4 -> 10 [] n = 5 -> 6 [] n = 6 -> 4 [] n = 3 -> 2
                         [] OTHER -> 0
              baseScore == RAddInt(bestConf, IF Len(bestText) = 4 THEN 10 ELSE 0)
          IN IF n >= 3 /\ n <= 10 /\ RGeq(RAddInt(avg, bonus), baseScore)
             THEN bestText' = symCandidate' /\ bestConf' = avg
             ELSE bestText' = bestText /\ bestConf' = bestConf ]_vars

\* a candidate of length 3 and average 90 replaced the baseline AB of confidence 92:
\* 90 + 2 >= 92
C20_Witness ==
    /\ stage = "returned"
    /\ baseText(recognized) = <<"A", "B">>
    /\ recognized.confidence = 92
    /\ recognized.words = << >>
    /\ Len(symCandidate) = 3
    /\ bestText = symCandidate
    /\ bestConf = R(90)

\* column x holds ink: more dark pixels than max(1, floor(H * 0.02))
InkColumn(img, x) ==
    LET dark == Cardinality({y \in 0..(img.h - 1) : img.data[(img.w * y + x) * 4 + 1] < 128})
    IN dark > 1 /\ 100 * dark > 2 * img.h

\* the maximal runs of ink columns of img, as <<first column, last column>>
InkRuns(img) ==
    LET cols == 0..(img.w - 1)
        starts == {x \in cols : InkColumn(img, x) /\ (x = 0 \/ ~InkColumn(img, x - 1))}
        ends == {x \in cols : InkColumn(img, x) /\ (x = img.w - 1 \/ ~InkColumn(img, x + 1))}
    IN { <<a, CHOOSE b \in ends : b >= a /\ \A e \in ends : e >= a => b <= e>> : a \in starts }

\* img has exactly 4 ink runs, each at least max(6, floor(W * 0.02)) columns wide
FourWideRuns(img) ==
    /\ img.w > 0
    /\ Cardinality(InkRuns(img)) = 4
    /\ \A r \in InkRuns(img) :
          r[2] - r[1] + 1 >= 6 /\ 100 * (r[2] - r[1] + 2) > 2 * img.w

\* the third smallest width of the runs of an image of four runs: the median the
\* post-filter uses
ThirdWidth(img) ==
    LET width(r) == r[2] - r[1] + 1
    IN CHOOSE m \in {width(r) : r \in InkRuns(img)} :
          /\ Cardinality({r \in InkRuns(img) : width(r) < m}) <= 2
          /\ Cardinality({r \in InkRuns(img) : width(r) <= m}) >= 3

\* the engine gave a letter of confidence >= 8 for each of four crops
FourLetters == Len(letters) = 4 /\ \A i \in 1..4 : letters[i].conf >= 8

\* the segments chosen are the four runs of the image, left to right
ChosenAreRuns ==
    /\ Len(chosen) = 4
    /\ {<<chosen[i].start, chosen[i].end>> : i \in 1..4} = InkRuns(processed)
    /\ \A i \in 1..4 : chosen[i].width = chosen[i].end - chosen[i].start + 1
    /\ \A i \in 1..3 : chosen[i].end < chosen[i + 1].start

\* C18 as stated: an image of exactly 4 ink runs wide enough gives exactly 4 segments
\* with the bounds of the runs, and with one letter of confidence >= 8 for each crop
\* the segmented Candidate's text has length 4.
C18_FourSegments ==
    /\ (pc = "segCreateWorker" /\ FourWideRuns(processed)) => ChosenAreRuns
    /\ (pc = "check" /\ FourWideRuns(processed) /\ FourLetters) => Len(result.text) = 4

\* C18: an image of exactly 4 ink runs wide enough gives exactly 4 segments with the
\* bounds of the runs; with one letter of confidence >= 8 for each crop the segmented
\* Candidate's text has length 4 provided every run is at least 0.6 times as wide as
\* the third narrowest one.
C18_FourSegmentsOfLikeWidth ==
    /\ (pc = "segCreateWorker" /\ FourWideRuns(processed)) => ChosenAreRuns
    /\ (pc = "check" /\ FourWideRuns(processed) /\ FourLetters
        /\ \A r \in InkRuns(processed) : 10 * (r[2] - r[1] + 1) >= 6 * ThirdWidth(processed)) =>
           Len(result.text) = 4

\* an image of four runs, the last one at the right edge, was read as four letters,
\* one of them at confidence 8
C18_Witness ==
    /\ pc = "check"
    /\ FourWideRuns(processed)
    /\ \E r \in InkRuns(processed) : r[2] = processed.w - 1
    /\ FourLetters
    /\ \E i \in 1..4 : letters[i].conf = 8
    /\ Len(result.text) = 4

\* C12: the shared worker is used by one request at a time: no two requests are
\* awaiting createWorker together, and no engine has more than one call (setParameters,
\* recognize, terminate) pending.
C12_Serialized ==
    /\ \A r1, r2 \in Slots : (where[r1] = "creating" /\ where[r2] = "creating") => r1 = r2
    /\ \A w \in 1..Len(engines) : engines[w].calls <= 1

\* C13: a request never issues setParameters or recognize on an engine that had
\* thrown before the request arrived, and once the catch block has answered, the
\* module's worker is null.
C13_ResetOnThrow ==
    /\ [](\A r \in Slots :
            where[r] \in {"configuring", "recognizing"} => target[r] \notin stale[r])
    /\ [][ \A r \in Slots :
             (where[r] = "terminating" /\ where'[r] = "done") => globalWorker' = 0 ]_vars

\* the places where handleOcr awaits the image library or the engine
EnvPlaces ==
    {"preprocess", "createWorker", "setParameters", "recognize", "terminate",
     "catchTerminate", "segPreprocess", "segCreateWorker", "segSetParameters",
     "glyph", "segRecognize", "segTerminate"}

Overrides == <<bestText', bestConf'>> # <<bestText, bestConf>>

\* C21 as stated: a stage of the selector changes the reading only to one of greater or
\* equal confidence, and the confidence runOcr returns is at least the engine's
\* full-text confidence.
C21_NeverLower ==
    /\ [][ (stage \in {"words", "symbols"} /\ Overrides) => RGeq(bestConf', bestConf) ]_vars
    /\ [](stage = "returned" => RGeq(bestConf, R(OrZero(recognized.confidence))))

\* C21: the words stage changes the reading only to one of greater or equal
\* confidence; the symbols stage changes it only when the new confidence plus the
\* length bonus of the new text (10, 6, 4, 2 for lengths 4, 5, 6, 3) is at least the
\* old confidence plus 10 for an old text of length 4; the confidence runOcr returns
\* is nowhere more than 10 below the engine's full-text confidence.
C21_NeverLowerByMoreThanBonus ==
    /\ [][ (stage = "words" /\ Overrides) => RGeq(bestConf', bestConf) ]_vars
    /\ [][ (stage = "symbols" /\ Overrides) =>
              LET n == Len(bestText')
                  bonus == CASE n = 4 -> 10 [] n = 5 -> 6 [] n = 6 -> 4 [] n = 3 -> 2
                             [] OTHER -> 0
              IN RGeq(RAddInt(bestConf', bonus),
                      RAddInt(bestConf, IF Len(bestText) = 4 THEN 10 ELSE 0)) ]_vars
    /\ [](stage = "returned" =>
              RGeq(RAddInt(bestConf, 10), R(OrZero(recognized.confidence))))

\* runOcr returned the symbol-derived text with a confidence below the full-text
\* confidence the engine gave
C21_Witness ==
    /\ stage = "returned"
    /\ Len(recognized.symbols) > 0
    /\ bestText = symCandidate
    /\ bestText # baseText(recognized)
    /\ RGt(R(OrZero(recognized.confidence)), bestConf)


\* r, a pair <<first column, last column>>, is at least max(6, floor(W * 0.02)) wide
WideRun(img, r) == r[2] - r[1] + 1 >= 6 /\ 100 * (r[2] - r[1] + 2) > 2 * img.w

\* C22: after the column scan and before the merge, every segment is a maximal run of
\* columns whose ink count exceeds max(1, floor(H * 0.02)), is at least
\* max(6, floor(W * 0.02)) wide with width = end - start + 1, and the segments are
\* disjoint and in strictly increasing column order; no narrower run is among them.
C22_ScanSegments ==
    phase = "scanned" =>
        /\ \A i \in 1..Len(segList) :
              /\ <<segList[i].start, segList[i].end>> \in InkRuns(bitmap)
              /\ WideRun(bitmap, <<segList[i].start, segList[i].end>>)
              /\ segList[i].width = segList[i].end - segList[i].start + 1
        /\ \A i \in 1..(Len(segList) - 1) : segList[i].end < segList[i + 1].start
        /\ \A r \in InkRuns(bitmap) :
              ~WideRun(bitmap, r) => \A i \in 1..Len(segList) : segList[i].start # r[1]

\* the scan gave more than 6 segments, the last one at the right edge, on an image
\* that also has a run of 5 columns
C22_Witness ==
    /\ phase = "scanned"
    /\ Len(segList) > 6
    /\ segList[Len(segList)].end = bitmap.w - 1
    /\ \E r \in InkRuns(bitmap) : r[2] - r[1] + 1 = 5

\* on an image 350 columns wide the run of 6 columns was dropped and those of 7 and 8
\* kept
C22_WideReached ==
    /\ phase = "scanned"
    /\ bitmap.w >= 350
    /\ \E r \in InkRuns(bitmap) : r[2] - r[1] + 1 = 6
    /\ Len(segList) = 2

\* on an image 100 rows high the columns of 2 ink pixels were taken as background
C22_TallReached ==
    /\ phase = "scanned"
    /\ bitmap.h > ImgH
    /\ Len(segList) = 2
    /\ segList[2].start - segList[1].end = 9


\* C23: the merge step, given more than 6 segments, leaves segments that are each
\* more than 3 columns apart from the next (counting the columns strictly between
\* them), each spanning from the start of a scanned segment to the end of one, with
\* width = end - start + 1; given 6 segments or fewer it leaves the list as it is.
C23_MergeNearSegments ==
    [][ phase = "scanned" =>
          IF Len(segList) > 6
          THEN /\ \A i \in 1..(Len(segList') - 1) :
                     segList'[i + 1].start - segList'[i].end - 1 > 3
               /\ \A i \in 1..Len(segList') :
                     /\ \E j \in 1..Len(segList) : segList[j].start = segList'[i].start
                     /\ \E j \in 1..Len(segList) : segList[j].end = segList'[i].end
                     /\ segList'[i].width = segList'[i].end - segList'[i].start + 1
          ELSE segList' = segList ]_vars


\* C24: the segments handed to per-glyph recognition are the leftmost ones of the
\* image, left to right, min(5, number of segments) of them, hence 4 or 5 when the
\* image has at least 4; recognize is called for one segment at a time, in order, and
\* never twice for the same segment.
C24_GlyphCandidates ==
    /\ [](pc \in {"segCreateWorker", "segSetParameters", "glyph", "segRecognize",
                  "segTerminate"} =>
            LET all == Segments(processed)
            IN /\ Len(chosen) <= 5
               /\ Len(chosen) = (IF Len(all) < 5 THEN Len(all) ELSE 5)
               /\ Len(all) >= 4 => Len(chosen) \in {4, 5}
               /\ \A i \in 1..Len(chosen) : chosen[i] = all[i]
               /\ \A i \in 1..(Len(chosen) - 1) : chosen[i].end < chosen[i + 1].start
               /\ \A j \in (Len(chosen) + 1)..Len(all) :
                     all[j].start > chosen[Len(chosen)].end)
    /\ [][ /\ pc = "segSetParameters" => k' \in {0, 1}
           /\ pc = "glyph" => k' = k
           /\ pc = "segRecognize" =>
                 /\ k \in 1..Len(chosen)
                 /\ IF pc' = "glyph" THEN k' = k + 1 ELSE (pc' = "done" /\ k' = k) ]_vars

\* an image of 6 segments: 5 were chosen and each was recognized once
C24_Witness ==
    /\ pc = "segTerminate"
    /\ Len(Segments(processed)) = 6
    /\ Len(chosen) = 5
    /\ k = 6


\* the glyphs runOcrSegmented keeps, as indices into ls: a leading 'C' of confidence
\* below 12 goes when there are 5 or more; the glyphs beyond 4 go, lowest confidence
\* first, the leftmost on ties; then those of confidence below 8 or narrower than 0.6
\* times the median width of ls
KeptGlyphs(ls) ==
    LET n == Len(ls)
        afterC == IF n >= 5 /\ ls[1].ch = <<"C">> /\ ls[1].conf < 12 THEN 2..n ELSE 1..n
        size == IF Cardinality(afterC) < 4 THEN Cardinality(afterC) ELSE 4
        four == CHOOSE K \in SUBSET afterC :
                   /\ Cardinality(K) = size
                   /\ \A r \in afterC \ K : \A q \in K :
                         \/ ls[r].conf < ls[q].conf
                         \/ ls[r].conf = ls[q].conf /\ r < q
        widths == {ls[i].width : i \in 1..n}
        m == IF n = 0 THEN 0
             ELSE CHOOSE v \in widths :
                     /\ Cardinality({i \in 1..n : ls[i].width < v}) <= n \div 2
                     /\ Cardinality({i \in 1..n : ls[i].width <= v}) > n \div 2
    IN {i \in four : ls[i].conf >= 8 /\ (m = 0 \/ 10 * ls[i].width >= 6 * m)}

\* C25: the text of the segmented Candidate has at most 4 characters: it is made of
\* the characters of the glyphs kept, in their left-to-right order.
C25_PostFilter ==
    (pc = "check" /\ IsSegmented(variant, idx) /\ ~result.error) =>
        LET kept == KeptGlyphs(letters)
            nth(j) == CHOOSE i \in kept : Cardinality({x \in kept : x < i}) = j - 1
        IN /\ Len(result.text) <= 4
           /\ result.text = [j \in 1..Cardinality(kept) |-> letters[nth(j)].ch[1]]

\* five glyphs were read, the two of lowest confidence tied at 8 and read as different
\* letters: the left one went, the right one is in the text
C25_Witness ==
    /\ pc = "check"
    /\ IsSegmented(variant, idx)
    /\ Len(letters) = 5
    /\ \E i, j \in 1..5 :
          /\ i < j
          /\ letters[i].conf = 8 /\ letters[j].conf = 8
          /\ letters[i].ch # letters[j].ch
          /\ \A x \in 1..5 : letters[x].conf >= 8
          /\ \A x \in 1..Len(result.text) : result.text[x] # letters[i].ch[1]
          /\ \E x \in 1..Len(result.text) : result.text[x] = letters[j].ch[1]


\* C26: what normalize returns is made of A-Z only and is no longer than its argument
\* upper-cased and stripped to A-Z; that stripped text gives SVNG when it holds SVNG,
\* ATLK when it is CATLE, its last 4 characters when it has 5, the first a 'C' and
\* the last an 'E', and itself in every other case.
C26_Normalize ==
    returned =>
        LET t == StripAZ(ToUpper(rawText))
            holdsSVNG == \E i \in 1..(Len(t) - 3) :
                            t[i] = "S" /\ t[i + 1] = "V" /\ t[i + 2] = "N" /\ t[i + 3] = "G"
        IN /\ \A i \in 1..Len(normalized) : normalized[i] \in AZ
           /\ Len(normalized) <= Len(t)
           /\ normalized =
                 (IF holdsSVNG THEN <<"S", "V", "N", "G">>
                  ELSE IF t = <<"C", "A", "T", "L", "E">> THEN <<"A", "T", "L", "K">>
                  ELSE IF Len(t) = 5 /\ t[1] = "C" /\ t[5] = "E"
                       THEN <<t[2], t[3], t[4], t[5]>>
                  ELSE t)

\* a text of 5 letters from 'C' to 'E', given in mixed case with a digit, came back
\* without its 'C'
C26_Witness ==
    /\ returned
    /\ Len(rawText) = 6
    /\ StripAZ(ToUpper(rawText)) = <<"C", "A", "E", "E", "E">>
    /\ \E i \in 1..6 : rawText[i] = "e"
    /\ normalized = <<"A", "E", "E", "E">>


\* C27: whether a Candidate passes depends on the length of its text and on its
\* confidence only: a Candidate with the text length and the confidence of one that
\* was rejected earlier in the same request is rejected too.
C27_AcceptanceByRawText ==
    [][ (/\ pc = "check"
         /\ idx > 1
         /\ RGt(bestSeen.confidence, R(0))
         /\ Len(bestSeen.text) = Len(result.text)
         /\ bestSeen.confidence = result.confidence) => pc' = "loop" ]_vars


\* the text the validity test of variant v looks at: the Candidate's text in part_001,
\* its normalized text in part_002
Tested(v, text) == IF v = "part_002" THEN normalize(text) ELSE text

\* C28: a non-empty solution is the tested text of an attempt that passed: its length
\* is in [1,12) in part_001 and in [3,10] in part_002, and the attempt's confidence is
\* >= 10 in part_001 and > 40 in part_002 unless the length is 4; a tested text of
\* length 4 passes whatever the confidence, and becomes the solution.
C28_ValidSolutions ==
    /\ []((/\ pc = "done"
           /\ variant \in {"part_001", "part_002"}
           /\ Len(responses) = 1
           /\ Solution # Empty) =>
              /\ firstValid # NoValid
              /\ Solution = Tested(variant, firstValid.text)
              /\ IF variant = "part_001"
                 THEN /\ Len(Solution) >= 1 /\ Len(Solution) < 12
                      /\ RGeq(firstValid.confidence, R(10)) \/ Len(Solution) = 4
                 ELSE /\ Len(Solution) >= 3 /\ Len(Solution) <= 10
                      /\ RGt(firstValid.confidence, R(40)) \/ Len(Solution) = 4)
    /\ [][ (/\ pc = "check"
            /\ variant \in {"part_001", "part_002"}
            /\ Len(Tested(variant, result.text)) = 4) =>
              /\ pc' = "respond"
              /\ finalResult' = Tested(variant, result.text) ]_vars

\* a text of length 4 read with confidence 0 is the solution
C28_Witness ==
    /\ pc = "done"
    /\ variant \in {"part_001", "part_002"}
    /\ Len(responses) = 1
    /\ Len(Solution) = 4
    /\ firstValid.confidence = R(0)


\* C29: when every call of the image library and of the engine returns or throws, the
\* request is answered, and answered once; the strategies attempted are the first ones
\* of the list, each once and in the order of the list: at most 9 in part_001 and 5 in
\* part_002 and index.js.
C29_AnsweredOnce ==
    /\ <>(pc = "done")
    /\ [](Len(responses) <= 1)
    /\ [](pc = "done" => Len(responses) = 1)
    /\ [](\A i \in 1..Len(attempted) : attempted[i] = i)
    /\ [](Len(attempted) <= (IF variant = "part_001" THEN 9 ELSE 5))
    /\ [][ attempted' = attempted \/ attempted' = Append(attempted, Len(attempted) + 1) ]_vars

\* all 9 strategies of part_001 were attempted, the last one ending in an exception,
\* and the request has its one answer
C29_Witness ==
    /\ pc = "done"
    /\ variant = "part_001"
    /\ attempted = <<1, 2, 3, 4, 5, 6, 7, 8, 9>>
    /\ caught
    /\ Len(responses) = 1


\* C30: once decoded, the request's buffer is never changed, so that every attempt is
\* given the same bytes; an attempt of a strategy with preprocess: false hands these
\* very bytes to recognize; during the glyph loop the processed image and the chosen
\* segments stay as they were.
C30_InputUntouched ==
    /\ [][ pc # "received" => buffer' = buffer ]_vars
    /\ []((pc \notin {"received", "done"}) => buffer = Decoded)
    /\ []((pc = "recognize" /\ ~strategies(variant)[idx].preprocess) =>
              processedBuffer = buffer)
    /\ [][ (pc \in {"glyph", "segRecognize"}) =>
              (processed' = processed /\ chosen' = chosen) ]_vars

\* the third strategy of part_001, Raw Buffer, is about to call recognize on the
\* request's bytes after two strategies that preprocessed them
C30_Witness ==
    /\ pc = "recognize"
    /\ variant = "part_001"
    /\ attempted = <<1, 2, 3>>
    /\ ~strategies(variant)[idx].preprocess
    /\ processedBuffer = Decoded

\* C31: at every moment at most one worker has been created and not terminated, and
\* every worker that was created is terminated or is the one the module's 'worker'
\* refers to.
C31_NoOrphanWorker ==
    /\ Cardinality({w \in 1..Len(engines) : ~engines[w].terminated}) <= 1
    /\ \A w \in 1..Len(engines) : engines[w].terminated \/ globalWorker = w

\* C32: a request never issues setParameters or recognize on a worker that another
\* request's catch block has called terminate() on, whether that call is still pending
\* or has ended; after its setParameters has returned a request never finds 'worker'
\* cleared to null at its recognize call; and a catch block never calls terminate() on
\* a worker on which another request's recognize is pending.
C32_NoUseAfterReset ==
    /\ [][ \A r \in Slots :
             (where'[r] \in {"configuring", "recognizing"} /\ where'[r] # where[r]) =>
                 /\ ~engines'[target'[r]].terminated
                 /\ \A o \in Slots \ {r} :
                       ~(where[o] = "terminating" /\ target[o] = target'[r]) ]_vars
    /\ [][ \A r \in Slots :
             ( /\ where[r] = "configuring"
               /\ ~engines[target[r]].configured
               /\ engines'[target[r]].configured ) => globalWorker # 0 ]_vars
    /\ [][ \A r \in Slots :
             (where'[r] = "terminating" /\ where[r] # "terminating") =>
                 \A o \in Slots \ {r} :
                    ~(where[o] = "recognizing" /\ target[o] = target'[r]) ]_vars

====
